---- MODULE Spec2Model ----
(***************************************************************************)
(* Model of the S&P 500 asset-pricing research pipeline (src/main.py):     *)
(* the synthetic market generator, the technical indicators, the macro     *)
(* series, the fundamentals, the news corpus and the sentiment scorer.     *)
(*                                                                         *)
(* Floating-point quantities are fixed-point integers:                     *)
(*   prices   : 1/PS   of a currency unit (PS = 10000, four decimals)      *)
(*   returns  : 1/RS   (RS = 10000, basis points)                          *)
(*   emitted price fields are rounded to cents (two decimals)              *)
(* The pseudorandom source (numpy's global generator) is a linear          *)
(* congruential generator; each draw advances it by one step.              *)
(***************************************************************************)
EXTENDS Integers, Sequences, FiniteSets, TLC

VARIABLES
    cfg,        \* Config: START_DATE, END_DATE, EXPECTED_TRADING_DAYS, EXPECTED_NEWS_COUNT
    rng,        \* state of the global pseudorandom source (np.random)
    pc,         \* position of the component being run
    runs,       \* number of completed runs of _generate_full_scale_stock_data
    calendar,   \* business_days of the run in progress
    symIdx,     \* number of symbols already generated in the run in progress
    acc,        \* all_stock_data: the rows accumulated by the run in progress
    panels,     \* the panels returned by the completed runs, in order
    macro,      \* macro_values: the macro state vector
    macroIdx,   \* index of the next month of collect_macro_economic_data
    macroOut,   \* last emitted macro record
    fund,       \* last emitted fundamental record
    fundIdx,    \* number of fundamental records emitted
    series,     \* input rows of _calculate_technical_indicators
    indOut,     \* rows returned by _calculate_technical_indicators
    news,       \* news_data / news_df: the corpus, one record per article
    newsDay,    \* number of business days already processed by the daily pass
    newsRounds, \* number of top-up rounds executed
    sent,       \* use_textblob, sentiment_results and the daily summary
    paths,      \* initial_price, the returns before and after the events, and prices of each symbol of the run
    dl,         \* state of _download_real_stock_data_yfdownload and its caller
    keys,       \* APIKeys: the configured key strings, by kind
    keysOk,     \* the values returned by APIKeys.validate_keys()
    symbols,    \* Config.SP500_TOP_300_STOCKS as configured: the list the generator iterates
    an          \* the run of main() and run_full_analysis: stage, history, exception

vars == << cfg, rng, pc, runs, calendar, symIdx, acc, panels, macro, macroIdx,
           macroOut, fund, fundIdx, series, indOut, news, newsDay, newsRounds, sent,
           paths, dl, keys, keysOk, symbols, an >>

genVars   == << runs, calendar, symIdx, acc, panels, paths, symbols >>
macroVars == << macro, macroIdx, macroOut >>
fundVars  == << fund, fundIdx >>
indVars   == << series, indOut >>
newsVars  == << news, newsDay, newsRounds >>
dlVars    == << dl >>
keyVars   == << keys, keysOk >>
anVars    == << an >>

----------------------------------------------------------------------------
(* Arithmetic helpers                                                      *)

Abs(x) == IF x < 0 THEN -x ELSE x

Min(a, b) == IF a < b THEN a ELSE b

Max(a, b) == IF a > b THEN a ELSE b

\* Integer quotient truncated toward zero (C/Python int() semantics).
TruncDiv(a, b) == IF a >= 0 THEN a \div b ELSE -((-a) \div b)

\* a * b / s truncated toward zero, computed without overflowing 32 bits.
MulDiv(a, b, s) ==
    LET sg == IF (a < 0) # (b < 0) THEN -1 ELSE 1
        x  == Abs(a)
        y  == Abs(b)
    IN  sg * ((x \div s) * y + ((x % s) * y) \div s)

RECURSIVE SumSeq(_)
SumSeq(s) == IF s = << >> THEN 0 ELSE Head(s) + SumSeq(Tail(s))

RECURSIVE FlattenSeq(_)
FlattenSeq(ss) == IF ss = << >> THEN << >> ELSE Head(ss) \o FlattenSeq(Tail(ss))

\* Integer square root (floor), by bisection: lo * lo <= n < hi * hi.
RECURSIVE ISqrtBetween(_, _, _)
ISqrtBetween(n, lo, hi) ==
    IF hi - lo <= 1 THEN lo
    ELSE LET mid == (lo + hi) \div 2
         IN  IF mid * mid <= n THEN ISqrtBetween(n, mid, hi)
             ELSE ISqrtBetween(n, lo, mid)

ISqrt(n) == IF n <= 0 THEN 0 ELSE ISqrtBetween(n, 0, Min(n, 46340) + 1)

\* Floating-point values that may be undefined or infinite.
Num(v) == [k |-> "num", v |-> v]

NaN == [k |-> "nan", v |-> 0]

PosInf == [k |-> "inf", v |-> 0]

NegInf == [k |-> "ninf", v |-> 0]

IsNum(x) == x.k = "num"

----------------------------------------------------------------------------
(* Scales                                                                  *)

PS == 10000

RS == 10000

\* round(x, 2): a price in 1/PS units rounded half-to-even to cents.
Round2(p) ==
    LET q == PS \div 100
        a == Abs(p)
        f == a \div q
        r == a % q
        n == IF 2 * r > q THEN f + 1
             ELSE IF 2 * r < q THEN f
             ELSE IF f % 2 = 0 THEN f ELSE f + 1
    IN  IF p < 0 THEN -n ELSE n

----------------------------------------------------------------------------
(* Pseudorandom source: np.random                                          *)

RngMod == 65536

RngMul == 25173

RngInc == 13849

SeedValue == 42

\* One step of the generator.
RngNext(s) == (RngMul * s + RngInc) % RngMod

RECURSIVE RngAt(_, _)
\* The state after k draws from state s.
RngAt(s, k) == IF k = 0 THEN s ELSE RngAt(RngNext(s), k - 1)

\* np.random.seed(n): the state becomes a function of n alone.
SeedRngUnseeded(s, n) == s

SeedRng(s, n) == n % RngMod

ULevels == 16

\* The fraction in [0, 1) drawn at state s, as a numerator over ULevels.
UFrac(s) == (s \div 4096) % ULevels

\* np.random.uniform(lo, hi): lo + (hi - lo) * u, u in [0, 1).
Uniform(s, lo, hi) == lo + ((hi - lo) * UFrac(s)) \div ULevels

\* Standard-normal deviates in hundredths of a standard deviation; the polar
\* method used by numpy's legacy generator yields at most about 12 sigma.
ZTable == << -1200, -300, -150, -60, 0, 60, 150, 300, 1200, -100, 100 >>

ZDraw(s) == ZTable[((s \div 128) % Len(ZTable)) + 1]

\* np.random.normal(mu, sigma)
Normal(s, mu, sigma) == mu + MulDiv(sigma, ZDraw(s), 100)

----------------------------------------------------------------------------
(* Technical indicators: _calculate_technical_indicators, _calculate_rsi   *)
(* Rows are 1-based; a rolling statistic at row t reads rows t-w+1..t.     *)

\* np.sqrt(252), scaled by 10000.
Sqrt252 == 158745

RECURSIVE InsertByDate(_, _)
InsertByDate(sorted, r) ==
    IF sorted = << >> THEN << r >>
    ELSE IF Head(sorted).Date <= r.Date
         THEN << Head(sorted) >> \o InsertByDate(Tail(sorted), r)
         ELSE << r >> \o sorted

RECURSIVE SortByDate(_)
\* df.sort_values('Date').reset_index(drop=True)
SortByDate(rows) ==
    IF rows = << >> THEN << >>
    ELSE InsertByDate(SortByDate(SubSeq(rows, 1, Len(rows) - 1)), rows[Len(rows)])

RECURSIVE WindowSum(_, _, _)
\* Sum of xs[lo..hi].
WindowSum(xs, lo, hi) == IF lo > hi THEN 0 ELSE xs[hi] + WindowSum(xs, lo, hi - 1)

\* Series.rolling(w).mean() at row t, in 1/sc of the unit of xs.
RollingMeanCentered(xs, w, t, sc) ==
    LET h == w \div 2
    IN  IF t - h < 1 \/ t - h + w - 1 > Len(xs) THEN NaN
        ELSE Num(TruncDiv(WindowSum(xs, t - h, t - h + w - 1) * sc, w))

RollingMean(xs, w, t, sc) ==
    IF t < w THEN NaN
    ELSE Num(TruncDiv(WindowSum(xs, t - w + 1, t) * sc, w))

RECURSIVE SumSqDev(_, _, _, _)
SumSqDev(xs, lo, hi, m) ==
    IF lo > hi THEN 0
    ELSE (xs[hi] - m) * (xs[hi] - m) + SumSqDev(xs, lo, hi - 1, m)

\* Series.rolling(w).std() (sample standard deviation, ddof = 1) at row t;
\* the values are taken in units of pre to keep the squares in range.
RollingStd(xs, w, t, pre) ==
    IF t < w THEN NaN
    ELSE LET ys == [i \in 1..Len(xs) |-> TruncDiv(xs[i], pre)]
             m  == TruncDiv(WindowSum(ys, t - w + 1, t), w)
         IN  Num(ISqrt(SumSqDev(ys, t - w + 1, t, m) \div (w - 1)) * pre)

\* x * c for a float x and a positive fixed-point factor num / den.
Scale(x, num, den) == IF IsNum(x) THEN Num(MulDiv(x.v, num, den)) ELSE x

FAdd(x, y) == IF IsNum(x) /\ IsNum(y) THEN Num(x.v + y.v) ELSE NaN

FSub(x, y) == IF IsNum(x) /\ IsNum(y) THEN Num(x.v - y.v) ELSE NaN

\* Float quotient a / b of two numbers, in 1/sc: division by zero gives an
\* infinity or NaN instead of raising (numpy/pandas semantics).
FDiv(a, b, sc) ==
    IF b = 0
    THEN IF a > 0 THEN PosInf ELSE IF a < 0 THEN NegInf ELSE NaN
    ELSE IF b < 0 THEN Num(0 - MulDiv(a, sc, 0 - b))
    ELSE Num(MulDiv(a, sc, b))

\* delta = prices.diff(): undefined at row 1.
Diff(xs, t) == IF t = 1 THEN NaN ELSE Num(xs[t] - xs[t - 1])

\* delta.where(delta > 0, 0): an undefined delta compares false and becomes 0.
GainOf(d) == IF IsNum(d) /\ d.v > 0 THEN d.v ELSE 0

\* delta.where(delta < 0, 0) without the sign change.
LossOfSigned(d) == IF IsNum(d) /\ d.v < 0 THEN d.v ELSE 0

\* -delta.where(delta < 0, 0)
LossOf(d) == IF IsNum(d) /\ d.v < 0 THEN -d.v ELSE 0

RSIWindow == 14

\* 100 - (100 / (1 + rs)), in hundredths of a point; rs in thousandths.
\* 100 / (1 + inf) is 0, so an infinite rs gives exactly 100.
RSIFromRSUndefined(rs) ==
    IF rs.k # "num" THEN NaN
    ELSE IF 1000 + rs.v = 0 THEN NegInf
    ELSE Num(10000 - (10000 * 1000) \div (1000 + rs.v))

RSIFromRS(rs) ==
    IF rs.k = "nan" THEN NaN
    ELSE IF rs.k = "inf" THEN Num(10000)
    ELSE IF rs.k = "ninf" THEN Num(10000)
    ELSE IF 1000 + rs.v = 0 THEN NegInf
    ELSE Num(10000 - (10000 * 1000) \div (1000 + rs.v))

\* _calculate_rsi(prices, window) at row t.
CalculateRSI(xs, w, t) ==
    LET gains  == [i \in 1..Len(xs) |-> GainOf(Diff(xs, i))]
        losses == [i \in 1..Len(xs) |-> LossOf(Diff(xs, i))]
        gain   == RollingMean(gains, w, t, 100)
        loss   == RollingMean(losses, w, t, 100)
        rs     == IF IsNum(gain) /\ IsNum(loss) THEN FDiv(gain.v, loss.v, 1000) ELSE NaN
    IN  RSIFromRS(rs)

ES == 100

RECURSIVE EwmNum(_, _, _)
\* Numerator of Series.ewm(span).mean() (adjust=True) at row t, in 1/ES.
EwmNum(xs, span, t) ==
    IF t = 1 THEN xs[1] * ES
    ELSE xs[t] * ES + MulDiv(EwmNum(xs, span, t - 1), span - 1, span + 1)

RECURSIVE EwmDen(_, _)
EwmDen(span, t) ==
    IF t = 1 THEN ES ELSE ES + MulDiv(EwmDen(span, t - 1), span - 1, span + 1)

\* Series.ewm(span=span).mean() at row t, in 1/sc of the unit of xs.
Ewm(xs, span, t, sc) == MulDiv(EwmNum(xs, span, t), sc, EwmDen(span, t))

\* Series.pct_change(k) at row t, in 1/RS.
PctChange(xs, k, t) ==
    IF t <= k THEN NaN ELSE FSub(FDiv(xs[t], xs[t - k], RS), Num(RS))

Column(rows, f) == [i \in 1..Len(rows) |-> rows[i][f]]

\* A row whose Return is defined (the download path leaves the first
\* Return of each symbol undefined).
HasReturn(r) == IF "ReturnNaN" \in DOMAIN r THEN ~r.ReturnNaN ELSE TRUE

\* df['Return'].rolling(w).std() * np.sqrt(252) at row t: undefined unless
\* the window holds w defined returns.
Volatility(rows, w, t) ==
    IF t >= w /\ \E j \in (t - w + 1)..t : ~HasReturn(rows[j]) THEN NaN
    ELSE Scale(RollingStd([i \in 1..Len(rows) |-> rows[i].Return], w, t, 10),
               Sqrt252, 10000)

\* The indicator columns of row t of the date-sorted frame.
IndicatorRow(rows, t) ==
    LET close  == [i \in 1..Len(rows) |-> rows[i].Close]
        volume == [i \in 1..Len(rows) |-> rows[i].Volume]
        ma20   == RollingMean(close, 20, t, 100)
        bbstd  == Scale(RollingStd(close, 20, t, 1), 200, 1)
        macd   == [i \in 1..t |-> Ewm(close, 12, i, 100) - Ewm(close, 26, i, 100)]
        vma20  == RollingMean(volume, 20, t, 1)
    IN  [ MA_5             |-> RollingMean(close, 5, t, 100),
          MA_20            |-> ma20,
          MA_50            |-> RollingMean(close, 50, t, 100),
          MA_200           |-> RollingMean(close, 200, t, 100),
          Volatility_5     |-> Volatility(rows, 5, t),
          Volatility_20    |-> Volatility(rows, 20, t),
          Volatility_60    |-> Volatility(rows, 60, t),
          RSI              |-> CalculateRSI(close, RSIWindow, t),
          MACD             |-> Num(macd[t]),
          MACD_Signal      |-> Num(Ewm(macd, 9, t, 1)),
          BB_Upper         |-> FAdd(ma20, bbstd),
          BB_Lower         |-> FSub(ma20, bbstd),
          Liquidity_Score  |-> Num(TruncDiv(rows[t].Close, 100) * (rows[t].Volume \div 1000)),
          Volume_MA_20     |-> vma20,
          Volume_Ratio     |-> IF IsNum(vma20) THEN FDiv(rows[t].Volume, vma20.v, 1000) ELSE NaN,
          Price_Change_1D  |-> PctChange(close, 1, t),
          Price_Change_5D  |-> PctChange(close, 5, t),
          Price_Change_20D |-> PctChange(close, 20, t) ]

\* _calculate_technical_indicators(df): the rows sorted by Date, each with
\* its indicator columns added.
CalculateTechnicalIndicators(rows) ==
    LET df == SortByDate(rows)
    IN  [t \in 1..Len(df) |-> df[t] @@ IndicatorRow(df, t)]

----------------------------------------------------------------------------
(* Calendar.  A date is the number of days since 2015-01-01 (a Thursday).  *)

\* Monday = 0 .. Sunday = 6
Weekday(d) == (d + 3) % 7

IsBusinessDay(d) == Weekday(d) < 5

RECURSIVE BDateRange(_, _)
\* pd.bdate_range(start, end, freq='B'): the business days in [start, end].
BDateRange(start, end) ==
    IF start > end THEN << >>
    ELSE (IF IsBusinessDay(start) THEN << start >> ELSE << >>)
         \o BDateRange(start + 1, end)

\* business_days[:n]
Truncate(days, n) == IF Len(days) > n THEN SubSeq(days, 1, n) ELSE days

\* The trading calendar of _generate_full_scale_stock_data: truncated to
\* EXPECTED_TRADING_DAYS when longer, left as it is when shorter.
TradingCalendarUntruncated(c) == BDateRange(c.start, c.end)

TradingCalendar(c) ==
    LET business_days == BDateRange(c.start, c.end)
    IN  IF Len(business_days) > c.ndays
        THEN SubSeq(business_days, 1, c.ndays)
        ELSE business_days

\* Months are counted from January 2015 (month 0).
DaysInMonth(m) ==
    LET mon  == m % 12
        year == 2015 + m \div 12
    IN  IF mon = 1 THEN (IF year % 4 = 0 THEN 29 ELSE 28)
        ELSE IF mon \in {3, 5, 8, 10} THEN 30 ELSE 31

\* Days of a common year before the first of each month.
DaysBeforeMonth == << 0, 31, 59, 90, 120, 151, 181, 212, 243, 273, 304, 334 >>

\* Ordinal of the last day of month m (m = 0 is January 2015).
MonthEnd(m) ==
    LET y    == m \div 12
        mon  == m % 12
        leap == IF (2015 + y) % 4 = 0 /\ mon >= 2 THEN 1 ELSE 0
    IN  365 * y + ((y + 2) \div 4) + DaysBeforeMonth[mon + 1] + leap + DaysInMonth(m) - 1

\* The ends in [lo, hi] of the periods of every months (1: months, 3:
\* quarters), in date order.
PeriodEnds(lo, hi, every) ==
    LET End(k) == MonthEnd(every * k + every - 1)
        ks     == { k \in 0..(hi \div 28) : End(k) >= lo /\ End(k) <= hi }
        k0     == CHOOSE k \in ks : \A j \in ks : k <= j
    IN  [ i \in 1..Cardinality(ks) |-> End(k0 + i - 1) ]

\* pd.date_range(start, end, freq='M')
MonthEnds(c) == PeriodEnds(c.start, c.end, 1)

\* pd.date_range(start, end, freq='Q')
QuarterEnds(c) == PeriodEnds(c.start, c.end, 3)

\* 2020-03-01, 2020-04-30, 2022-01-01, 2022-12-31
CovidStart == 1886

CovidEnd == 1946

InflationStart == 2557

InflationEnd == 2921

----------------------------------------------------------------------------
(* Sector parameter table: _get_sector_parameters                          *)
(* drift, volatility and beta in 1/RS; avg_volume in shares.               *)

TechStocks == { "AAPL", "MSFT", "GOOGL", "GOOG", "AMZN", "NVDA", "META",
                "TSLA", "ORCL", "AMD", "CRM", "ADBE", "INTU", "IBM" }

FinanceStocks == { "JPM", "BAC", "WFC", "GS", "AXP", "USB", "PNC", "TFC",
                   "COF", "SCHW" }

HealthcareStocks == { "JNJ", "PFE", "UNH", "ABBV", "TMO", "ABT", "DHR", "BMY",
                      "AMGN", "GILD" }

EnergyStocks == { "XOM", "CVX", "SLB", "OXY", "FCX", "DVN", "APA" }

SectorParameters(symbol) ==
    IF symbol \in TechStocks
    THEN [drift |-> 1500, volatility |-> 3500, beta |-> 12000, avg_volume |-> 15000000]
    ELSE IF symbol \in FinanceStocks
    THEN [drift |-> 1000, volatility |-> 2500, beta |-> 11000, avg_volume |-> 8000000]
    ELSE IF symbol \in HealthcareStocks
    THEN [drift |-> 1200, volatility |-> 2000, beta |-> 8000, avg_volume |-> 6000000]
    ELSE IF symbol \in EnergyStocks
    THEN [drift |-> 800, volatility |-> 4000, beta |-> 13000, avg_volume |-> 12000000]
    ELSE [drift |-> 1000, volatility |-> 2200, beta |-> 10000, avg_volume |-> 5000000]

\* Config.TARGET_STOCK_COUNT
TARGET_STOCK_COUNT == 300

\* Config.SP500_TOP_300_STOCKS, the list the generators iterate over.
SP500_TOP_300_STOCKS ==
    <<
       "AAPL", "MSFT", "GOOGL", "GOOG", "AMZN", "NVDA", "META", "TSLA", "BRK-B", "AVGO",
       "UNH", "JNJ", "XOM", "JPM", "V", "PG", "MA", "CVX", "HD", "ABBV",
       "PFE", "BAC", "KO", "PEP", "TMO", "COST", "MRK", "WMT", "DIS", "ABT",
       "DHR", "VZ", "CSCO", "ACN", "LIN", "ADBE", "NKE", "BMY", "PM", "T",
       "TXN", "NFLX", "RTX", "NEE", "WFC", "UPS", "LOW", "ORCL", "AMD", "CRM",
       "QCOM", "HON", "UNP", "INTU", "IBM", "AMGN", "ELV", "CAT", "SPGI", "AXP",
       "BKNG", "GE", "DE", "TJX", "ADP", "MDLZ", "SYK", "GILD", "MCD", "LMT",
       "ADI", "MMM", "CI", "SCHW", "CME", "MO", "SO", "ZTS", "CB", "DUK",
       "BSX", "TGT", "BDX", "ITW", "AON", "CL", "EQIX", "SLB", "APD", "EMR",
       "NSC", "GD", "ICE", "PNC", "FCX", "USB", "GM", "PYPL", "ETN", "WM",
       "NOC", "MCK", "D", "REGN", "FDX", "CVS", "ISRG", "ECL", "PLD", "SPG",
       "GS", "MRNA", "ATVI", "COF", "TFC", "F", "JCI", "HUM", "SRE", "MU",
       "PSA", "MCO", "AEP", "CCI", "MSI", "CMG", "KLAC", "ADSK", "FIS", "FISV",
       "APH", "EXC", "CNC", "PEG", "MCHP", "KMB", "TEL", "AIG", "DOW", "CARR",
       "CTSH", "PAYX", "OXY", "DLR", "HCA", "AMAT", "DXCM", "EW", "WELL", "AMT",
       "SBUX", "PRU", "AFL", "ALL", "ROST", "YUM", "ORLY", "EA", "CTAS", "FAST",
       "PCAR", "BK", "MTB", "PPG", "AZO", "ED", "IDXX", "IQV", "ROP", "GWW",
       "STZ", "A", "APTV", "CPRT", "NDAQ", "MKTX", "CTVA", "DD", "KHC", "EFX",
       "HPQ", "GLW", "VRSK", "BLL", "EBAY", "ABC", "WBA", "EIX", "ETR", "CDW",
       "XEL", "CERN", "OTIS", "TSN", "WEC", "STT", "DLTR", "AWK", "ES", "URI",
       "TROW", "MLM", "PPL", "RSG", "DTE", "FE", "AEE", "NTRS", "CNP", "LYB",
       "CMS", "DFS", "WY", "CLX", "VRTX", "IP", "KEY", "NI", "EXPE", "FITB",
       "EMN", "LUV", "CFG", "CAG", "HBAN", "LYV", "EXPD", "IEX", "AVB", "FRT",
       "ESS", "K", "FMC", "HSY", "J", "SYF", "RF", "L", "ATO", "TRMB",
       "CHRW", "DRI", "TDY", "BR", "FLS", "JKHY", "AOS", "PEAK", "LH", "WAB",
       "MAS", "NTAP", "ROL", "SWKS", "ZION", "LKQ", "TECH", "CE", "TTWO", "MAA",
       "PKI", "TYL", "WAT", "JBHT", "POOL", "CBOE", "ALLE", "DGX", "COO", "AKAM",
       "UDR", "MHK", "HOLX", "STE", "REG", "LDOS", "AVY", "TPG", "HRL", "PAYC",
       "TER", "CINF", "CRL", "NWSA", "PFG", "NWL", "GL", "BEN", "NVR", "AIZ",
       "LNT", "VICI", "RCL", "UHS", "DVN", "INCY", "CCL", "CMA", "HAS", "PKG",
       "VTRS", "GRMN", "CPB", "WRK", "BWA", "SEE", "PNW", "PBCT", "DVA", "RHI",
       "BXP", "HII", "HSIC", "ALK", "LVS", "NRG", "NLSN", "FTV", "RE", "ALB",
       "AAL", "GPS", "APA", "TAP", "UAA", "DISH", "HFC", "VNO", "IVZ", "PVH"
    >>

\* The instruments the generator iterates over: one symbol of each sector
\* bucket of Config.SP500_TOP_300_STOCKS, in the order of that list.
StockList == << "AAPL", "UNH", "XOM", "JPM", "V" >>

----------------------------------------------------------------------------
(* Synthetic market generator: _generate_single_stock_data                 *)

RECURSIVE RngSeq(_, _)
\* The states of the next k draws from state s.
RngSeq(s, k) ==
    IF k = 0 THEN << >> ELSE << RngNext(s) >> \o RngSeq(RngNext(s), k - 1)

\* A mask that selects every date.
MaskedIdxAll(dates, lo, hi) == [ i \in 1..Len(dates) |-> i ]

RECURSIVE MaskedIdx(_, _, _)
\* The positions of the dates of date_range that lie in [lo, hi], in order.
MaskedIdx(dates, lo, hi) ==
    IF dates = << >> THEN << >>
    ELSE MaskedIdx(SubSeq(dates, 1, Len(dates) - 1), lo, hi)
         \o (IF dates[Len(dates)] >= lo /\ dates[Len(dates)] <= hi
             THEN << Len(dates) >> ELSE << >>)

\* The rank of position i in the increasing list idx (0 when absent).
RankIn(idx, i) ==
    IF \E j \in 1..Len(idx) : idx[j] = i
    THEN CHOOSE j \in 1..Len(idx) : idx[j] = i
    ELSE 0

\* _add_market_events: a copy of returns with a gaussian perturbation added
\* on the days of each window; st are the states of the draws it makes.
AddMarketEvents(returns, dates, st) ==
    LET covid     == MaskedIdx(dates, CovidStart, CovidEnd)
        inflation == MaskedIdx(dates, InflationStart, InflationEnd)
        nc        == Len(covid)
    IN  [i \in 1..Len(returns) |->
            returns[i]
            + (IF RankIn(covid, i) > 0
               THEN Normal(st[RankIn(covid, i)], -200, 500) ELSE 0)
            + (IF RankIn(inflation, i) > 0
               THEN Normal(st[nc + RankIn(inflation, i)], -50, 200) ELSE 0)]

\* The number of draws _add_market_events makes.
EventDraws(dates) ==
    Len(MaskedIdx(dates, CovidStart, CovidEnd))
    + Len(MaskedIdx(dates, InflationStart, InflationEnd))

RECURSIVE PricePathFromInitial(_, _, _)
\* A path whose first price is initial_price itself.
PricePathFromInitial(initial_price, rets, t) ==
    IF t = 0 THEN << >>
    ELSE LET prev == PricePathFromInitial(initial_price, rets, t - 1)
         IN  Append(prev, IF t = 1 THEN initial_price
                          ELSE prev[t - 1] + MulDiv(prev[t - 1], rets[t], RS))

RECURSIVE PricePath(_, _, _)
\* Lines 391-394, prices after prices[1:]: the first price is initial_price
\* compounded by the first return, each later one the price before it
\* compounded by the return of its day.
PricePath(initial_price, rets, t) ==
    IF t = 0 THEN << >>
    ELSE LET prev == PricePath(initial_price, rets, t - 1)
             last == IF t = 1 THEN initial_price ELSE prev[t - 1]
         IN  Append(prev, last + MulDiv(last, rets[t], RS))

Ln2 == 6931

RECURSIVE LnFix(_)
\* Natural logarithm of x / RS, x > 0, in 1/RS.
LnFix(x) ==
    IF x >= 2 * RS THEN Ln2 + LnFix(x \div 2)
    ELSE IF x < RS THEN LnFix(2 * x) - Ln2
    ELSE LET y  == ((x - RS) * RS) \div (x + RS)
             y3 == (((y * y) \div RS) * y) \div RS
             y5 == (((y3 * y) \div RS) * y) \div RS
         IN  2 * (y + y3 \div 3 + y5 \div 5)

\* np.log(close / prev): NaN for a negative ratio, -inf for a zero one.
LogReturn(close, prev) ==
    LET q == (Max(Abs(close), Abs(prev)) \div 100000) + 1
        n == Max(1, Abs(close) \div q)
        d == Max(1, Abs(prev) \div q)
    IN  IF prev = 0 THEN (IF close > 0 THEN PosInf ELSE NaN)
        ELSE IF close = 0 THEN NegInf
        ELSE IF (close < 0) # (prev < 0) THEN NaN
        ELSE Num(LnFix(Max(1, (n * RS) \div d)))

\* open_price = prices[i-1] if i > 0 else close
OpenPriceUnshifted(prices, i) == prices[i]

OpenPrice(prices, i) == IF i > 1 THEN prices[i - 1] ELSE prices[i]

\* volume_multiplier = 1 + abs(total_returns[i]) * 10, in 1/RS
VolumeMultiplierSigned(ret) == RS + ret * 10

VolumeMultiplier(ret) == RS + Abs(ret) * 10

\* int(volume_base * volume_multiplier * np.random.uniform(0.5, 2.0))
Volume(volume_base, ret, s) ==
    MulDiv(MulDiv(volume_base, VolumeMultiplier(ret), RS),
           Uniform(s, 5000, 20000), RS)

\* The rows of one instrument before the indicators are added, and the
\* state of the pseudorandom source after the draws, from state s.
SingleStockRecords(symbol, dates, s) ==
    LET n       == Len(dates)
        params  == SectorParameters(symbol)
        ne      == EventDraws(dates)
        st      == RngSeq(s, 1 + 2 * n + ne + 4 * n)
        initial_price == Uniform(st[1], 50 * PS, 500 * PS)
        daily_drift   == TruncDiv(params.drift, 252)
        daily_vol     == MulDiv(params.volatility, 10000, Sqrt252)
        market  == [i \in 1..n |-> Normal(st[1 + i], 0, 100)]
        idio    == [i \in 1..n |-> Normal(st[1 + n + i], daily_drift, daily_vol)]
        base    == [i \in 1..n |-> MulDiv(params.beta, market[i], RS) + idio[i]]
        total   == AddMarketEvents(base, dates, SubSeq(st, 2 + 2 * n, 1 + 2 * n + ne))
        prices  == PricePath(initial_price, total, n)
        d0      == 1 + 2 * n + ne
        Rec(i)  ==
            LET close       == prices[i]
                daily_range == MulDiv(close, Uniform(st[d0 + 4 * i - 3], 50, 400), RS)
                high        == close + TruncDiv(daily_range * UFrac(st[d0 + 4 * i - 2]), ULevels)
                low         == close - TruncDiv(daily_range * UFrac(st[d0 + 4 * i - 1]), ULevels)
            IN  [ Date       |-> dates[i],
                  Symbol     |-> symbol,
                  Open       |-> Round2(OpenPrice(prices, i)),
                  High       |-> Round2(high),
                  Low        |-> Round2(low),
                  Close      |-> Round2(close),
                  Volume     |-> Volume(params.avg_volume, total[i], st[d0 + 4 * i]),
                  Return     |-> total[i],
                  Log_Return |-> LogReturn(close, IF i > 1 THEN prices[i - 1] ELSE initial_price) ]
    IN  [ rows |-> [i \in 1..n |-> Rec(i)],
          rng  |-> st[Len(st)],
          initial_price |-> initial_price,
          base_returns  |-> base,
          total_returns |-> total,
          prices        |-> prices ]

\* _generate_single_stock_data: the records with their indicator columns.
GenerateSingleStockData(symbol, dates, s) ==
    LET g == SingleStockRecords(symbol, dates, s)
    IN  [ g EXCEPT !.rows = CalculateTechnicalIndicators(g.rows) ]

----------------------------------------------------------------------------
(* Configuration inputs                                                    *)

MaxSpan == 9

MaxTarget == 8

MaxRuns == 2

\* START_DATE: 2015-01-01 (Thu), 2015-01-03 (Sat), 2020-02-26 (Wed, three
\* business days before the 2020 window), 2022-12-29 (Thu, two business
\* days before the end of the 2022 window).
StartDates == { 0, 2, 1882, 2919 }

Spans == { 1, 4, MaxSpan }

Targets == { 2, 5, MaxTarget }

MaxNews == 12

\* EXPECTED_NEWS_COUNT
NewsTargets == { 2, 6, MaxNews }

Configs == { [start |-> a, end |-> a + b, ndays |-> n, nnews |-> MaxNews] :
                a \in StartDates, b \in Spans, n \in Targets }

\* States np.random may be in when a component starts.
RngInits == { 0, 12345, 40000 }

\* The same for a direct call of _generate_single_stock_data: one state in
\* every RngStride.
RngStride == 1024

SingleRngInits == { s \in 0..(RngMod - 1) : s % RngStride = 324 }

----------------------------------------------------------------------------
(* State at rest of each component                                         *)

\* No run of the generator yet.
GenIdle ==
    /\ runs = 0
    /\ calendar = << >>
    /\ symIdx = 0
    /\ acc = << >>
    /\ panels = << >>
    /\ paths = << >>

GenAtRest == GenIdle /\ symbols = StockList

----------------------------------------------------------------------------
(* _generate_full_scale_stock_data                                         *)

RECURSIVE GenerateAll(_, _, _)
\* Lines 345-347 as a function: the frames of the symbols of syms, generated
\* one after the other from the pseudorandom state s.
GenerateAll(syms, dates, s) ==
    IF syms = << >> THEN << >>
    ELSE LET g == GenerateSingleStockData(Head(syms), dates, s)
         IN  << g.rows >> \o GenerateAll(Tail(syms), dates, g.rng)

\* Instrument lists: the list itself, the list reversed, two of its
\* symbols exchanged, and a part of it.
SymbolLists ==
    { StockList,
      << "V", "JPM", "XOM", "UNH", "AAPL" >>,
      << "AAPL", "XOM", "UNH", "JPM", "V" >>,
      << "XOM", "V" >> }

\* Lines 326-342, entered from position p: build the calendar, reseed the
\* pseudorandom source.
GenBegin(p) ==
    /\ pc = p
    /\ runs < MaxRuns
    /\ calendar' = TradingCalendar(cfg)
    /\ rng' = SeedRng(rng, SeedValue)
    /\ symIdx' = 0
    /\ acc' = << >>
    /\ paths' = << >>
    /\ pc' = "gen_loop"
    /\ UNCHANGED << cfg, runs, panels, symbols >>

\* _generate_full_scale_stock_data called on its own.
GenStart == GenBegin("idle")

\* Lines 345-347: one iteration of the loop over the symbols.
GenStock ==
    /\ pc = "gen_loop"
    /\ symIdx < Len(symbols)
    /\ calendar # << >>
    /\ LET g == GenerateSingleStockData(symbols[symIdx + 1], calendar, rng)
       IN  /\ acc' = Append(acc, g.rows)
           /\ paths' = Append(paths, [ initial_price |-> g.initial_price,
                                       base_returns  |-> g.base_returns,
                                       total_returns |-> g.total_returns,
                                       prices        |-> g.prices ])
           /\ rng' = g.rng
    /\ symIdx' = symIdx + 1
    /\ UNCHANGED << cfg, pc, runs, calendar, panels, symbols >>

\* Lines 364-426 on an empty calendar: the frame built from no record has no
\* column, and sort_values('Date') raises KeyError after the first draw.
GenStockRaises ==
    /\ pc = "gen_loop"
    /\ symIdx < Len(symbols)
    /\ calendar = << >>
    /\ rng' = SingleStockRecords(symbols[symIdx + 1], calendar, rng).rng
    /\ pc' = "gen_raised"
    /\ UNCHANGED << cfg, runs, calendar, symIdx, acc, panels, paths, symbols >>

\* Lines 353-360: pd.concat(all_stock_data, ignore_index=True) is returned.
GenFinish ==
    /\ pc = "gen_loop"
    /\ symIdx = Len(symbols)
    /\ panels' = Append(panels, FlattenSeq(acc))
    /\ runs' = runs + 1
    /\ pc' = "idle"
    /\ UNCHANGED << cfg, rng, calendar, symIdx, acc, paths, symbols >>

\* _generate_single_stock_data(symbol, date_range) called on its own for a
\* symbol of the list, in whatever state np.random is in.
GenSingle ==
    /\ pc = "idle"
    /\ runs = 0
    /\ TradingCalendar(cfg) # << >>
    /\ \E k \in 1..Len(symbols) :
         LET g == GenerateSingleStockData(symbols[k], TradingCalendar(cfg), rng)
         IN  /\ acc' = << g.rows >>
             /\ paths' = << [ initial_price |-> g.initial_price,
                              base_returns  |-> g.base_returns,
                              total_returns |-> g.total_returns,
                              prices        |-> g.prices ] >>
             /\ rng' = g.rng
    /\ calendar' = TradingCalendar(cfg)
    /\ pc' = "single_done"
    /\ UNCHANGED << cfg, runs, symIdx, panels, symbols >>

\* The same call with an empty date_range: KeyError after the first draw.
GenSingleRaises ==
    /\ pc = "idle"
    /\ runs = 0
    /\ TradingCalendar(cfg) = << >>
    /\ \E k \in 1..Len(symbols) :
         rng' = SingleStockRecords(symbols[k], << >>, rng).rng
    /\ pc' = "single_raised"
    /\ UNCHANGED << cfg, runs, calendar, symIdx, acc, panels, paths, symbols >>

\* Between two runs the other components draw from, and reseed, np.random.
OtherRandomUse ==
    /\ pc = "idle"
    /\ runs > 0
    /\ runs < MaxRuns
    /\ \E s \in RngInits : s # rng /\ rng' = s
    /\ UNCHANGED << cfg, pc, runs, calendar, symIdx, acc, panels, paths, symbols >>

----------------------------------------------------------------------------
(* Macro series: collect_macro_economic_data, _update_macro_values         *)
(* Indicator values are in hundredths.                                     *)

MACRO_INDICATORS ==
    << "GDP_Growth", "Inflation_Rate", "Unemployment_Rate", "Federal_Funds_Rate",
       "VIX_Index", "Dollar_Index", "Oil_Price", "Ten_Year_Treasury" >>

MacroInitial ==
    [ GDP_Growth |-> 250, Inflation_Rate |-> 200, Unemployment_Rate |-> 500,
      Federal_Funds_Rate |-> 150, VIX_Index |-> 1800, Dollar_Index |-> 9500,
      Oil_Price |-> 7000, Ten_Year_Treasury |-> 250 ]

MacroVolatility ==
    [ GDP_Growth |-> 30, Inflation_Rate |-> 40, Unemployment_Rate |-> 20,
      Federal_Funds_Rate |-> 25, VIX_Index |-> 300, Dollar_Index |-> 200,
      Oil_Price |-> 800, Ten_Year_Treasury |-> 30 ]

MacroMin ==
    [ GDP_Growth |-> -500, Inflation_Rate |-> -100, Unemployment_Rate |-> 200,
      Federal_Funds_Rate |-> 0, VIX_Index |-> 1000, Dollar_Index |-> 8000,
      Oil_Price |-> 2000, Ten_Year_Treasury |-> 50 ]

MacroMax ==
    [ GDP_Growth |-> 800, Inflation_Rate |-> 1000, Unemployment_Rate |-> 1500,
      Federal_Funds_Rate |-> 600, VIX_Index |-> 8000, Dollar_Index |-> 12000,
      Oil_Price |-> 15000, Ten_Year_Treasury |-> 600 ]

\* 2020-12-31 and 2023-12-31: the ends of the macro event windows.
MacroCovidEnd == 2191

MacroInflationEnd == 3286

\* 2.0 * np.exp(-k / 3) for k = 0..11, in hundredths.
CovidUnemployment == << 200, 143, 103, 74, 53, 38, 27, 19, 14, 10, 7, 5 >>

\* np.clip(x, lo, hi)
ClipUnclamped(x, lo, hi) == x

Clip(x, lo, hi) == IF x < lo THEN lo ELSE IF x > hi THEN hi ELSE x

\* Lines 663-666: one gaussian shock per indicator, in the order of
\* MACRO_INDICATORS; st are the states of the eight draws.
MacroShocked(values, st) ==
    [ ind \in DOMAIN values |->
        LET k == CHOOSE j \in 1..Len(MACRO_INDICATORS) : MACRO_INDICATORS[j] = ind
        IN  values[ind] + Normal(st[k], 0, MacroVolatility[ind]) ]

\* Lines 669-674: the 2020 window.
MacroCovid(v, date, index) ==
    IF date >= CovidStart /\ date <= MacroCovidEnd
    THEN [ v EXCEPT
             !.Unemployment_Rate = @ + CovidUnemployment[(index % 12) + 1],
             !.GDP_Growth = @ - 150,
             !.VIX_Index = @ + 1000,
             !.Federal_Funds_Rate = Max(10, @ - 50) ]
    ELSE v

\* Lines 676-680: the 2022-2023 window.
MacroInflation(v, date) ==
    IF date >= InflationStart /\ date <= MacroInflationEnd
    THEN [ v EXCEPT
             !.Inflation_Rate = Min(900, @ + 30),
             !.Federal_Funds_Rate = Min(550, @ + 20),
             !.Ten_Year_Treasury = Min(500, @ + 15) ]
    ELSE v

\* Lines 683-690: every indicator clipped to its band.
MacroClipped(v) == [ ind \in DOMAIN v |-> Clip(v[ind], MacroMin[ind], MacroMax[ind]) ]

\* _update_macro_values(values, date, index)
UpdateMacroValues(values, date, index, st) ==
    MacroClipped(MacroInflation(MacroCovid(MacroShocked(values, st), date, index), date))

MacroAtRest ==
    /\ macro = MacroInitial
    /\ macroIdx = 0
    /\ macroOut = << >>

\* Lines 609-628: the monthly dates, the seed and the initial values.
MacroStart ==
    /\ pc = "idle"
    /\ rng' = SeedRng(rng, SeedValue)
    /\ macro' = MacroInitial
    /\ macroIdx' = 0
    /\ macroOut' = << >>
    /\ pc' = "macro_loop"
    /\ UNCHANGED cfg

\* Lines 630-636: one month; the returned vector is emitted and carried on.
MacroStep ==
    /\ pc = "macro_loop"
    /\ macroIdx < Len(MonthEnds(cfg))
    /\ LET st == RngSeq(rng, Len(MACRO_INDICATORS))
           nv == UpdateMacroValues(macro, MonthEnds(cfg)[macroIdx + 1], macroIdx, st)
       IN  /\ macro' = nv
           /\ macroOut' = << [Date |-> MonthEnds(cfg)[macroIdx + 1], values |-> nv] >>
           /\ rng' = st[Len(st)]
    /\ macroIdx' = macroIdx + 1
    /\ UNCHANGED << cfg, pc >>

\* Lines 638-645: the frame is returned.
MacroFinish ==
    /\ pc = "macro_loop"
    /\ macroIdx = Len(MonthEnds(cfg))
    /\ pc' = "macro_done"
    /\ UNCHANGED << cfg, rng, macro, macroIdx, macroOut >>

----------------------------------------------------------------------------
(* Fundamentals: collect_fundamental_data                                  *)
(* Ratios are in 1/FS; multipliers in tenths.                              *)

FS == 10000

FUNDAMENTAL_INDICATORS ==
    << "Market_Cap", "PE_Ratio", "PB_Ratio", "PS_Ratio", "EV_EBITDA",
       "ROE", "ROA", "ROI", "Gross_Margin", "Operating_Margin",
       "Net_Margin", "Debt_to_Equity", "Current_Ratio", "Quick_Ratio",
       "Asset_Turnover" >>

\* _get_base_fundamental_value
BaseFundamentalValue ==
    [ Market_Cap |-> 50000 * FS, PE_Ratio |-> 18 * FS, PB_Ratio |-> 25000,
      PS_Ratio |-> 3 * FS, EV_EBITDA |-> 12 * FS, ROE |-> 1500, ROA |-> 800,
      ROI |-> 1200, Gross_Margin |-> 3500, Operating_Margin |-> 1500,
      Net_Margin |-> 1000, Debt_to_Equity |-> 6000, Current_Ratio |-> 15000,
      Quick_Ratio |-> 12000, Asset_Turnover |-> 8000 ]

FundTechStocks == { "AAPL", "MSFT", "GOOGL", "NVDA", "META", "TSLA" }

FundFinanceStocks == { "JPM", "BAC", "WFC", "GS", "AXP" }

\* _get_fundamental_multiplier: a table that may lack indicators.
FundamentalMultiplier(symbol) ==
    IF symbol \in FundTechStocks
    THEN [ PE_Ratio |-> 15, PB_Ratio |-> 13, PS_Ratio |-> 18, EV_EBITDA |-> 14,
           ROE |-> 12, ROA |-> 11, ROI |-> 12, Gross_Margin |-> 13,
           Operating_Margin |-> 12, Net_Margin |-> 11 ]
    ELSE IF symbol \in FundFinanceStocks
    THEN [ PE_Ratio |-> 7, PB_Ratio |-> 8, Debt_to_Equity |-> 20,
           ROE |-> 9, Current_Ratio |-> 5, Quick_Ratio |-> 5 ]
    ELSE [ i \in { FUNDAMENTAL_INDICATORS[j] : j \in 1..Len(FUNDAMENTAL_INDICATORS) } |-> 10 ]

\* sector_multiplier.get(indicator, 1.0)
MultiplierGet(table, indicator) ==
    IF indicator \in DOMAIN table THEN table[indicator] ELSE 10

FundFloor == 100

\* max(0.01, sector_adj + noise)
FundValueUnfloored(sector_adj, noise) == sector_adj + noise

FundValue(sector_adj, noise) == Max(FundFloor, sector_adj + noise)

\* Lines 536-549: the record of one quarter and symbol; st are the states of
\* the fifteen draws, one per indicator in the order of the list.
FundamentalRecord(date, symbol, st) ==
    LET mult == FundamentalMultiplier(symbol)
    IN  [ Date |-> date, Symbol |-> symbol,
          values |->
            [ j \in 1..Len(FUNDAMENTAL_INDICATORS) |->
                LET ind        == FUNDAMENTAL_INDICATORS[j]
                    base_value == BaseFundamentalValue[ind]
                    sector_adj == MulDiv(base_value, MultiplierGet(mult, ind), 10)
                    noise      == Normal(st[j], 0, base_value \div 10)
                IN  FundValue(sector_adj, noise) ] ]

FundAtRest ==
    /\ fund = << >>
    /\ fundIdx = 0

\* Lines 522-531: the quarterly dates and the seed.
FundStart ==
    /\ pc = "idle"
    /\ rng' = SeedRng(rng, SeedValue)
    /\ fund' = << >>
    /\ fundIdx' = 0
    /\ pc' = "fund_loop"
    /\ UNCHANGED cfg

\* Lines 533-551: one (quarter, symbol) iteration.
FundStep ==
    /\ pc = "fund_loop"
    /\ fundIdx < Len(QuarterEnds(cfg)) * Len(StockList)
    /\ LET st == RngSeq(rng, Len(FUNDAMENTAL_INDICATORS))
           q  == QuarterEnds(cfg)[(fundIdx \div Len(StockList)) + 1]
           sy == StockList[(fundIdx % Len(StockList)) + 1]
       IN  /\ fund' = << FundamentalRecord(q, sy, st) >>
           /\ rng' = st[Len(st)]
    /\ fundIdx' = fundIdx + 1
    /\ UNCHANGED << cfg, pc >>

\* Lines 553-561: the frame is returned.
FundFinish ==
    /\ pc = "fund_loop"
    /\ fundIdx = Len(QuarterEnds(cfg)) * Len(StockList)
    /\ pc' = "fund_done"
    /\ UNCHANGED << cfg, rng, fund, fundIdx >>

----------------------------------------------------------------------------
(* News corpus: collect_news_sentiment_data, _generate_additional_news     *)

\* _get_comprehensive_news_templates: per category, the templates with their
\* sentiment hint and the numbers of positive and negative lexicon words
\* that occur in the lower-cased title and description.
NewsTemplates ==
    << [ category |-> "earnings_positive",
         templates |-> << [sentiment |-> "positive", pos |-> 4, neg |-> 0],
                          [sentiment |-> "positive", pos |-> 2, neg |-> 0],
                          [sentiment |-> "positive", pos |-> 3, neg |-> 0] >> ],
       [ category |-> "earnings_negative",
         templates |-> << [sentiment |-> "negative", pos |-> 0, neg |-> 3],
                          [sentiment |-> "negative", pos |-> 0, neg |-> 1],
                          [sentiment |-> "negative", pos |-> 0, neg |-> 3] >> ],
       [ category |-> "analyst_upgrades",
         templates |-> << [sentiment |-> "positive", pos |-> 3, neg |-> 0],
                          [sentiment |-> "positive", pos |-> 1, neg |-> 0] >> ],
       [ category |-> "analyst_downgrades",
         templates |-> << [sentiment |-> "negative", pos |-> 1, neg |-> 2],
                          [sentiment |-> "negative", pos |-> 0, neg |-> 1] >> ],
       [ category |-> "product_innovation",
         templates |-> << [sentiment |-> "positive", pos |-> 3, neg |-> 0],
                          [sentiment |-> "positive", pos |-> 1, neg |-> 0] >> ],
       [ category |-> "regulatory_news",
         templates |-> << [sentiment |-> "negative", pos |-> 0, neg |-> 0],
                          [sentiment |-> "positive", pos |-> 0, neg |-> 0] >> ],
       [ category |-> "market_general",
         templates |-> << [sentiment |-> "neutral", pos |-> 2, neg |-> 0],
                          [sentiment |-> "neutral", pos |-> 0, neg |-> 0] >> ],
       [ category |-> "merger_acquisition",
         templates |-> << [sentiment |-> "positive", pos |-> 0, neg |-> 0],
                          [sentiment |-> "neutral", pos |-> 1, neg |-> 0] >> ] >>

\* len(_get_news_companies()), len(_get_news_sources())
NumCompanies == 50

NumSources == 22

\* np.random.choice over n items / np.random.randint(lo, hi): 1-based index.
Choice(s, n) == ((s \div 16) % n) + 1

RandInt(s, lo, hi) == lo + ((s \div 16) % (hi - lo))

\* Poisson deviates as multiples of lambda / 2.
PoissonTable == << 0, 1, 2, 2, 3, 4 >>

\* np.random.poisson(num / den)
Poisson(s, num, den) ==
    (num * PoissonTable[((s \div 256) % Len(PoissonTable)) + 1]) \div (2 * den)

\* Lines 728-756 and 931-953: the fields drawn for one article; st are the
\* states of the six draws (category, template, company, source, hour, minute).
NewsFields(st) ==
    LET c == Choice(st[1], Len(NewsTemplates))
        t == Choice(st[2], Len(NewsTemplates[c].templates))
    IN  [ category       |-> NewsTemplates[c].category,
          template       |-> t,
          sentiment_hint |-> NewsTemplates[c].templates[t].sentiment,
          pos            |-> NewsTemplates[c].templates[t].pos,
          neg            |-> NewsTemplates[c].templates[t].neg,
          company        |-> Choice(st[3], NumCompanies),
          source         |-> Choice(st[4], NumSources),
          hour           |-> RandInt(st[5], 6, 22),
          minute         |-> RandInt(st[6], 0, 60) ]

RECURSIVE DailyArticles(_, _, _, _)
\* Lines 726-759: the daily_count articles of one date; st are the states of
\* their draws and first is total_generated before the first of them.
DailyArticles(date, count, st, first) ==
    IF count = 0 THEN << >>
    ELSE DailyArticles(date, count - 1, st, first)
         \o << NewsFields(SubSeq(st, 6 * count - 5, 6 * count))
                @@ [ Date |-> date, url |-> first + count - 1,
                     api_source |-> "comprehensive_generator" ] >>

RECURSIVE SampleRows(_, _, _)
\* news_df.sample(n, random_state=42): n rows drawn without replacement by a
\* generator of its own, in the order drawn.
SampleRows(rows, n, s) ==
    IF n = 0 THEN << >>
    ELSE LET s1 == RngNext(s)
             i  == Choice(s1, Len(rows))
         IN  << rows[i] >>
             \o SampleRows(SubSeq(rows, 1, i - 1) \o SubSeq(rows, i + 1, Len(rows)),
                           n - 1, s1)

NewsAtRest ==
    /\ news = << >>
    /\ newsDay = 0
    /\ newsRounds = 0

\* business_days of collect_news_sentiment_data (lines 699-703)
NewsCalendar(c) == Truncate(BDateRange(c.start, c.end), c.ndays)

\* Lines 698-720 with at least one business day.
NewsStart ==
    /\ pc = "idle"
    /\ NewsCalendar(cfg) # << >>
    /\ rng' = SeedRng(rng, SeedValue)
    /\ news' = << >>
    /\ newsDay' = 0
    /\ newsRounds' = 0
    /\ pc' = "news_daily"
    /\ UNCHANGED cfg

\* Line 706 with no business day: EXPECTED_NEWS_COUNT / 0 raises
\* ZeroDivisionError before the seed is set.
NewsStartRaises ==
    /\ pc = "idle"
    /\ NewsCalendar(cfg) = << >>
    /\ pc' = "news_zero_division"
    /\ UNCHANGED << cfg, rng, news, newsDay, newsRounds >>

\* Lines 722-759: one business day of the daily pass.
NewsDaily ==
    /\ pc = "news_daily"
    /\ newsDay < Len(NewsCalendar(cfg))
    /\ LET s1    == RngNext(rng)
           count == Max(1, Poisson(s1, cfg.nnews, Len(NewsCalendar(cfg))))
           st    == RngSeq(s1, 6 * count)
       IN  /\ news' = news \o DailyArticles(NewsCalendar(cfg)[newsDay + 1], count, st, Len(news))
           /\ rng' = st[Len(st)]
    /\ newsDay' = newsDay + 1
    /\ UNCHANGED << cfg, pc, newsRounds >>

\* Line 764: the daily pass is over.
NewsDailyDone ==
    /\ pc = "news_daily"
    /\ newsDay = Len(NewsCalendar(cfg))
    /\ pc' = "news_adjust"
    /\ UNCHANGED << cfg, rng, news, newsDay, newsRounds >>

\* Lines 767-775 with a deficit: _generate_additional_news draws a date with
\* np.random.choice(business_days), which yields a numpy.datetime64; after
\* the seven draws of the first article, date.date() raises AttributeError
\* and nothing is added.
NewsTopUpRaises ==
    /\ pc = "news_adjust"
    /\ Len(news) < cfg.nnews
    /\ rng' = RngAt(rng, 7)
    /\ newsRounds' = newsRounds + 1
    /\ pc' = "news_attribute_error"
    /\ UNCHANGED << cfg, news, newsDay >>

\* Lines 778-779 with a surplus: the corpus is down-sampled to the target.
NewsDownSample ==
    /\ pc = "news_adjust"
    /\ Len(news) > cfg.nnews
    /\ news' = SampleRows(news, cfg.nnews, SeedRng(rng, SeedValue))
    /\ pc' = "news_done"
    /\ UNCHANGED << cfg, rng, newsDay, newsRounds >>

\* Lines 767-787 when the daily pass hit the target: returned as it is.
NewsExact ==
    /\ pc = "news_adjust"
    /\ Len(news) = cfg.nnews
    /\ pc' = "news_done"
    /\ UNCHANGED << cfg, rng, news, newsDay, newsRounds >>

----------------------------------------------------------------------------
(* The pipeline: main and ComprehensiveAnalyzer.run_full_analysis          *)

\* The stages of run_full_analysis in the order of lines 2070-2131.
StageOrder ==
    << "stocks", "fundamentals", "macro", "news", "sentiment",
       "report", "charts", "academic", "robustness" >>

\* The files a stage hands to _save_data once its call has returned.
StageFiles(stage) ==
    CASE stage = "stocks"       -> << "stock_market_data.csv" >>
      [] stage = "fundamentals" -> << "fundamental_data.csv" >>
      [] stage = "macro"        -> << "macro_economic_data.csv" >>
      [] stage = "news"         -> << "news_data.csv" >>
      [] stage = "sentiment"    -> << "sentiment_analysis_results.csv",
                                      "daily_sentiment_summary.csv" >>
      [] OTHER                  -> << >>

\* Exception classes a stage raises: the KeyError of the generator on an
\* empty calendar, the ZeroDivisionError and the AttributeError of the news
\* collector, and errors of the frames handled by the later stages.
StageErrors == { "KeyError", "ZeroDivisionError", "AttributeError", "ValueError" }

AnalysisCatchesNothing(exc) == FALSE

\* except Exception (line 2142): every error class; KeyboardInterrupt and
\* SystemExit are not subclasses of Exception.
AnalysisCatches(exc) == exc \in StageErrors \cup { "Exception", "OSError", "RuntimeError" }

AnalysisAtRest ==
    an = [ stage |-> 0, started |-> << >>, returned |-> << >>, pending |-> << >>,
           saves |-> << >>, exc |-> "none", main |-> "none", origin |-> "none" ]

\* main (lines 5941-5958) calls run_full_analysis, whose first statement
\* (line 2067, outside the try) creates the directories: an OSError there
\* reaches main, which prints it (line 5965).
AnalysisBegin ==
    /\ pc = "idle"
    /\ an.stage = 0
    /\ \E created \in BOOLEAN :
          IF created
          THEN /\ an' = [ an EXCEPT !.stage = 1 ]
               /\ pc' = "an_call"
          ELSE /\ an' = [ an EXCEPT !.main = "OSError", !.origin = "create_directories" ]
               /\ pc' = "main_except"
    /\ UNCHANGED << cfg, rng >>

\* The call of the stage in turn returns: its frames go to _save_data, or,
\* for a stage that saves nothing, the next stage is in turn.
StageReturns ==
    /\ pc = "an_call"
    /\ an.stage \in 1..Len(StageOrder)
    /\ LET stage == StageOrder[an.stage]
       IN  IF StageFiles(stage) = << >>
           THEN /\ an' = [ an EXCEPT !.started  = Append(@, stage),
                                     !.returned = Append(@, stage),
                                     !.stage    = @ + 1 ]
                /\ pc' = "an_call"
           ELSE /\ an' = [ an EXCEPT !.started = Append(@, stage),
                                     !.pending = StageFiles(stage) ]
                /\ pc' = "an_save"
    /\ UNCHANGED << cfg, rng >>

\* The call of the stage in turn raises exc: the handler of lines 2142-2145
\* logs it and run_full_analysis returns, or exc reaches main.
StageRaises ==
    /\ pc = "an_call"
    /\ an.stage \in 1..Len(StageOrder)
    /\ \E exc \in StageErrors :
          IF AnalysisCatches(exc)
          THEN /\ an' = [ an EXCEPT !.started = Append(@, StageOrder[an.stage]),
                                    !.exc     = exc ]
               /\ pc' = "main_returned"
          ELSE /\ an' = [ an EXCEPT !.started = Append(@, StageOrder[an.stage]),
                                    !.main    = exc,
                                    !.origin  = "stage" ]
               /\ pc' = "main_except"
    /\ UNCHANGED << cfg, rng >>

\* _save_data (lines 2147-2159) for the next file of the stage: the two
\* copies are written, or a write fails and the handler of line 2158 logs
\* it; either way it returns, and after the last file the stage is over.
SaveData ==
    /\ pc = "an_save"
    /\ an.pending # << >>
    /\ \E written \in BOOLEAN :
          an' = [ an EXCEPT !.saves    = Append(@, [ file |-> Head(an.pending), ok |-> written ]),
                            !.pending  = Tail(@),
                            !.returned = IF Len(an.pending) = 1
                                         THEN Append(@, StageOrder[an.stage]) ELSE @,
                            !.stage    = IF Len(an.pending) = 1 THEN @ + 1 ELSE @ ]
    /\ pc' = IF Len(an.pending) = 1 THEN "an_call" ELSE "an_save"
    /\ UNCHANGED << cfg, rng >>

\* Lines 2134-2140: after the last stage the summary is printed and
\* run_full_analysis returns to main.
AnalysisCompletes ==
    /\ pc = "an_call"
    /\ an.stage = Len(StageOrder) + 1
    /\ pc' = "main_returned"
    /\ UNCHANGED << cfg, rng, an >>

\* The user interrupts the run: KeyboardInterrupt passes the handlers of
\* lines 2142 and 2158 and is caught by main (line 5963).
Interrupted ==
    /\ pc \in { "an_call", "an_save" }
    /\ an.stage \in 1..Len(StageOrder)
    /\ an' = [ an EXCEPT !.main = "KeyboardInterrupt", !.origin = "user" ]
    /\ pc' = "main_except"
    /\ UNCHANGED << cfg, rng >>

----------------------------------------------------------------------------
(* The collectors as functions of the configuration                        *)

\* np.random after np.random.seed(42).
SeededState == SeedRng(0, SeedValue)

RECURSIVE MacroAfter(_, _)
\* Lines 616-636 as a function: macro_values and np.random after k months.
MacroAfter(c, k) ==
    IF k = 0 THEN [ values |-> MacroInitial, rng |-> SeededState ]
    ELSE LET p  == MacroAfter(c, k - 1)
             st == RngSeq(p.rng, Len(MACRO_INDICATORS))
         IN  [ values |-> UpdateMacroValues(p.values, MonthEnds(c)[k], k - 1, st),
               rng    |-> st[Len(st)] ]

RECURSIVE FundAfter(_, _)
\* Lines 531-551 as a function: the last record of fundamental_data and
\* np.random after k iterations.
FundAfter(c, k) ==
    IF k = 0 THEN [ record |-> << >>, rng |-> SeededState ]
    ELSE LET p  == FundAfter(c, k - 1)
             st == RngSeq(p.rng, Len(FUNDAMENTAL_INDICATORS))
             q  == QuarterEnds(c)[((k - 1) \div Len(StockList)) + 1]
             sy == StockList[((k - 1) % Len(StockList)) + 1]
         IN  [ record |-> FundamentalRecord(q, sy, st), rng |-> st[Len(st)] ]

RECURSIVE NewsAfterDays(_, _)
\* Lines 718-759 as a function: news_data and np.random after k business days.
NewsAfterDays(c, k) ==
    IF k = 0 THEN [ rows |-> << >>, rng |-> SeededState ]
    ELSE LET p     == NewsAfterDays(c, k - 1)
             s1    == RngNext(p.rng)
             count == Max(1, Poisson(s1, c.nnews, Len(NewsCalendar(c))))
             st    == RngSeq(s1, 6 * count)
         IN  [ rows |-> p.rows \o DailyArticles(NewsCalendar(c)[k], count, st, Len(p.rows)),
               rng  |-> st[Len(st)] ]

\* Lines 764-787 as a function: the corpus returned when the daily pass has
\* reached the target.
NewsReturned(c) ==
    LET d == NewsAfterDays(c, Len(NewsCalendar(c)))
    IN  IF Len(d.rows) > c.nnews
        THEN SampleRows(d.rows, c.nnews, SeedRng(d.rng, SeedValue))
        ELSE d.rows

\* The return of a collector to run_full_analysis, which goes on to the next.
CollectorReturns ==
    /\ pc \in { "macro_done", "fund_done", "news_done" }
    /\ pc' = "idle"
    /\ UNCHANGED << cfg, rng, macroVars, fundVars, newsVars >>

----------------------------------------------------------------------------
(* Sentiment: AdvancedSentimentAnalyzer.analyze_news_sentiment             *)
(* Scores are in units of 1 / RS.                                          *)

\* blob.sentiment of TextBlob: a polarity in [-1, 1] and a subjectivity in
\* [0, 1], both functions of the text that the lexicon does not determine.
TextBlobOutputs ==
    { [polarity |-> 0 - RS,     subjectivity |-> RS],
      [polarity |-> RS \div 4, subjectivity |-> RS \div 2],
      [polarity |-> RS,         subjectivity |-> RS] }

\* len(financial_positive_words), len(financial_negative_words)
PositiveLexiconSize == 25

NegativeLexiconSize == 22

\* (pos_count, neg_count) of a text: from no lexicon word to all of them.
KeywordCounts ==
    { << p, n >> : p \in { 0, 1, PositiveLexiconSize },
                   n \in { 0, 3, NegativeLexiconSize } }

KeywordSentimentUnnormalised(pos_count, neg_count) == (pos_count - neg_count) * RS

\* Lines 1024-1027
KeywordSentiment(pos_count, neg_count) ==
    IF pos_count + neg_count > 0
    THEN TruncDiv((pos_count - neg_count) * RS, pos_count + neg_count)
    ELSE 0

\* The blend applied in both modes.
CombinedSentimentBlended(use_textblob, textblob_sentiment, keyword_sentiment) ==
    TruncDiv(6 * textblob_sentiment + 4 * keyword_sentiment, 10)

\* Lines 1030-1033
CombinedSentiment(use_textblob, textblob_sentiment, keyword_sentiment) ==
    IF use_textblob
    THEN TruncDiv(6 * textblob_sentiment + 4 * keyword_sentiment, 10)
    ELSE keyword_sentiment

\* Line 1036: min(1.0, (pos_count + neg_count) / 5)
Intensity(pos_count, neg_count) == Min(RS, ((pos_count + neg_count) * RS) \div 5)

\* Lines 1008-1051: the result row of one article.
SentimentRow(use_textblob, idx, date, blob, pos_count, neg_count) ==
    LET tb == IF use_textblob THEN blob.polarity ELSE 0
        kw == KeywordSentiment(pos_count, neg_count)
    IN  [ news_id            |-> idx,
          date               |-> date,
          textblob_sentiment |-> tb,
          keyword_sentiment  |-> kw,
          combined_sentiment |-> CombinedSentiment(use_textblob, tb, kw),
          confidence         |-> IF use_textblob THEN blob.subjectivity ELSE RS \div 2,
          intensity          |-> Intensity(pos_count, neg_count),
          positive_keywords  |-> pos_count,
          negative_keywords  |-> neg_count,
          total_keywords     |-> pos_count + neg_count ]

\* a / b rounded to the nearest integer, ties to even (DataFrame.round).
RoundDiv(a, b) ==
    LET q == a \div b
        r == a % b
    IN  IF 2 * r > b \/ (2 * r = b /\ q % 2 = 1) THEN q + 1 ELSE q

MeanOf(xs) == RoundDiv(SumSeq(xs), Len(xs))

\* Sample standard deviation of a group; undefined for a single row.
StdOf(xs) == IF Len(xs) < 2 THEN NaN ELSE RollingStd(xs, Len(xs), Len(xs), 10)

RECURSIVE MinOf(_)
MinOf(xs) == IF Len(xs) = 1 THEN xs[1] ELSE Min(Head(xs), MinOf(Tail(xs)))

RECURSIVE MaxOf(_)
MaxOf(xs) == IF Len(xs) = 1 THEN xs[1] ELSE Max(Head(xs), MaxOf(Tail(xs)))

\* pd.cut(mean, bins=[-1, -0.2, 0.2, 1], labels=[...]): the intervals are
\* open on the left and closed on the right, the lowest edge excluded.
SentimentRegime(mean) ==
    IF mean > 0 - RS /\ mean <= 0 - (RS \div 5) THEN "Bearish"
    ELSE IF mean > 0 - (RS \div 5) /\ mean <= RS \div 5 THEN "Neutral"
    ELSE IF mean > RS \div 5 /\ mean <= RS THEN "Bullish"
    ELSE "NaN"

RECURSIVE SelectRows(_, _)
SelectRows(rows, date) ==
    IF rows = << >> THEN << >>
    ELSE (IF Head(rows).date = date THEN << Head(rows) >> ELSE << >>)
         \o SelectRows(Tail(rows), date)

RECURSIVE SortedDates(_)
SortedDates(ds) ==
    IF ds = {} THEN << >>
    ELSE LET d == CHOOSE x \in ds : \A y \in ds : x <= y
         IN  << d >> \o SortedDates(ds \ {d})

\* Lines 1070-1083: one row of the grouped frame.
DailyStats(rows, date) ==
    LET g == SelectRows(rows, date)
        c == Column(g, "combined_sentiment")
    IN  [ date                    |-> date,
          combined_sentiment_mean  |-> MeanOf(c),
          combined_sentiment_std   |-> StdOf(c),
          combined_sentiment_count |-> Len(g),
          combined_sentiment_min   |-> MinOf(c),
          combined_sentiment_max   |-> MaxOf(c),
          textblob_sentiment_mean  |-> MeanOf(Column(g, "textblob_sentiment")),
          keyword_sentiment_mean   |-> MeanOf(Column(g, "keyword_sentiment")),
          confidence_mean          |-> MeanOf(Column(g, "confidence")),
          intensity_mean           |-> MeanOf(Column(g, "intensity")),
          positive_keywords_sum    |-> SumSeq(Column(g, "positive_keywords")),
          negative_keywords_sum    |-> SumSeq(Column(g, "negative_keywords")),
          total_keywords_sum       |-> SumSeq(Column(g, "total_keywords")) ]

\* Series.rolling(w).mean() at row i of a column that may hold NaN.
RollingMeanOfFloats(fs, w, i) ==
    IF i < w \/ (\E j \in (i - w + 1)..i : ~IsNum(fs[j])) THEN NaN
    ELSE RollingMean([j \in 1..Len(fs) |-> fs[j].v], w, i, 1)

\* _generate_daily_sentiment_summary
GenerateDailySentimentSummary(rows) ==
    LET ds    == SortedDates({ rows[i].date : i \in 1..Len(rows) })
        stats == [ i \in 1..Len(ds) |-> DailyStats(rows, ds[i]) ]
        means == Column(stats, "combined_sentiment_mean")
    IN  [ i \in 1..Len(ds) |->
            stats[i] @@
            [ sentiment_momentum   |-> RollingMean(means, 5, i, 1),
              sentiment_volatility |->
                  RollingMeanOfFloats(Column(stats, "combined_sentiment_std"), 20, i),
              sentiment_regime     |-> SentimentRegime(means[i]) ] ]

MaxArticles == 2

\* Dates of the analysed articles (day ordinals).
ArticleDates == { 0, 1 }

SentAtRest == sent = [ use_textblob |-> FALSE, results |-> << >>, daily |-> << >> ]

\* Lines 982-987 and 1004: the import of TextBlob succeeds or fails.
SentStart ==
    /\ pc = "idle"
    /\ \E b \in BOOLEAN :
         sent' = [ use_textblob |-> b, results |-> << >>, daily |-> << >> ]
    /\ pc' = "sent_loop"
    /\ UNCHANGED << cfg, rng >>

\* Lines 1006-1051: one iteration of the loop over the rows of news_df.
SentRow ==
    /\ pc = "sent_loop"
    /\ Len(sent.results) < MaxArticles
    /\ \E date \in ArticleDates, blob \in TextBlobOutputs, kc \in KeywordCounts :
         \* without TextBlob the text is never handed to it
         /\ (~sent.use_textblob) => blob = (CHOOSE b \in TextBlobOutputs : TRUE)
         /\ sent' = [ sent EXCEPT !.results =
                        Append(@, SentimentRow(sent.use_textblob, Len(@), date,
                                               blob, kc[1], kc[2])) ]
    /\ UNCHANGED << cfg, rng, pc >>

\* Lines 1056-1066: the daily summary of a non-empty result frame.
SentFinish ==
    /\ pc = "sent_loop"
    /\ sent.results # << >>
    /\ sent' = [ sent EXCEPT !.daily = GenerateDailySentimentSummary(sent.results) ]
    /\ pc' = "sent_done"
    /\ UNCHANGED << cfg, rng >>

\* Line 1059 on an empty frame: groupby('date') raises KeyError.
SentFinishRaises ==
    /\ pc = "sent_loop"
    /\ sent.results = << >>
    /\ pc' = "sent_key_error"
    /\ UNCHANGED << cfg, rng, sent >>

----------------------------------------------------------------------------
(* Indicators on a given frame: _calculate_technical_indicators            *)

MaxRows == 21

\* Daily close changes and first closes of the input frames, in cents.
CloseDeltas == { -100, 0, 50, 250 }

BaseCloses == { 5000, 10000 }

\* A frame of n rows in date order whose close starts at base and moves by
\* d1 and d2 alternately.
SeriesOf(base, d1, d2, n) ==
    LET close(i) == base + (i \div 2) * d1 + ((i - 1) \div 2) * d2
    IN  [ i \in 1..n |->
            [ Date   |-> i,
              Close  |-> close(i),
              Volume |-> 1000000 + 50000 * ((3 * i) % 7),
              Return |-> IF i = 1 THEN 0
                         ELSE TruncDiv((close(i) - close(i - 1)) * RS, close(i - 1)) ] ]

\* The same rows in the opposite order.
Reversed(rows) == [ i \in 1..Len(rows) |-> rows[Len(rows) + 1 - i] ]

IndInputs ==
    LET fwd == { SeriesOf(b, d1, d2, n) :
                   b \in BaseCloses, d1 \in CloseDeltas, d2 \in CloseDeltas, n \in 1..MaxRows }
    IN  fwd \cup { Reversed(r) : r \in fwd }

IndAtRest ==
    /\ series = << >>
    /\ indOut = << >>

\* Lines 469-507: the indicator columns of the frame are computed.
IndCalc ==
    /\ pc = "idle"
    /\ indOut' = CalculateTechnicalIndicators(series)
    /\ pc' = "ind_done"
    /\ UNCHANGED << cfg, rng, series >>

----------------------------------------------------------------------------
(* Live download: collect_full_scale_stock_data and                        *)
(* _download_real_stock_data_yfdownload                                    *)

\* batch_size (50 in the code), scaled to the model's instrument list.
DlBatchSize == 2

\* Number of daily rows yf.download returns per symbol.
DlDays == 3

\* What the download gives for one symbol of a batch: all the price columns,
\* the Close column only, or nothing usable (absent, or an error while it is
\* processed).
SymbolOutcomes == { "full", "short", "failed" }

\* The frame of symbol number k as downloaded (prices in cents).
DownloadedFrame(k, outcome) ==
    [ i \in 1..DlDays |->
        [ Date    |-> i,
          Symbol  |-> StockList[k],
          Close   |-> 2000 * k + 150 * i * k,
          Volume  |-> 100000 * k + 1000 * i,
          columns |-> IF outcome = "full"
                      THEN { "Date", "Symbol", "Open", "High", "Low", "Close", "Volume" }
                      ELSE { "Date", "Symbol", "Close" } ] ]

\* Lines 264-281: the frame of one symbol with Return = Close.pct_change(),
\* undefined on its first row.
WithReturns(frame) ==
    [ i \in 1..Len(frame) |->
        [ Date      |-> frame[i].Date,
          Symbol    |-> frame[i].Symbol,
          Close     |-> frame[i].Close,
          Volume    |-> frame[i].Volume,
          Return    |-> IF i = 1 THEN 0
                        ELSE TruncDiv((frame[i].Close - frame[i - 1].Close) * RS,
                                      frame[i - 1].Close),
          ReturnNaN |-> i = 1 ] ]

\* Lines 268-273: fewer than five of the necessary columns: skipped.
Usable(frame) == Cardinality(frame[1].columns) >= 5

RECURSIVE CombinedData(_)
\* Lines 261-283: combined_data, in the order of all_data.
CombinedData(all_data) ==
    IF all_data = << >> THEN << >>
    ELSE (IF Usable(Head(all_data)) THEN << WithReturns(Head(all_data)) >> ELSE << >>)
         \o CombinedData(Tail(all_data))

\* Lines 289-292: the frames are concatenated and the indicators are
\* computed on the concatenation.
DownloadResult(combined) == CalculateTechnicalIndicators(FlattenSeq(combined))

\* The exception classes the download path raises.
DownloadErrors == { "ImportError", "RuntimeError" }

CaughtRuntimeOnly(exc) == exc = "RuntimeError"

\* except Exception (line 318): every error of the download path is one.
Caught(exc) == exc \in DownloadErrors \cup { "Exception", "KeyError", "ValueError" }

DlAtRest ==
    dl = [ next |-> 0, requested |-> << >>, batch_errors |-> 0,
           all_data |-> << >>, failed |-> << >>, exc |-> "none",
           cause |-> "none", log |-> << >>, result |-> << >> ]

\* The download path raises exc with message cause: line 318 catches it or
\* it reaches the caller.
DlRaise(exc, cause) ==
    /\ dl' = [ dl EXCEPT !.exc = exc, !.cause = cause ]
    /\ pc' = IF Caught(exc) THEN "dl_failed" ELSE "collect_raised"

\* Line 187: yfinance is not installed.
DlImportFails ==
    /\ pc = "idle"
    /\ dl.exc = "none"
    /\ runs = 0
    /\ DlRaise("ImportError", "No module named 'yfinance'")
    /\ UNCHANGED << cfg, rng >>

\* Lines 187-201: yfinance is imported.
DlImportOk ==
    /\ pc = "idle"
    /\ dl.exc = "none"
    /\ runs = 0
    /\ pc' = "dl_batch"
    /\ UNCHANGED << cfg, rng, dl >>

\* The failed list left as it is when a batch raises.
BatchFailedDropped(failed_downloads, batch) == failed_downloads

\* Line 253: failed_downloads.extend(batch)
BatchFailed(failed_downloads, batch) == failed_downloads \o batch

\* Lines 205-253: one batch.  yf.download raises and the whole batch is
\* recorded as failed, or each symbol of the batch is kept or recorded as
\* failed on its own.  requested lists the symbols passed to yf.download so
\* far, batch_errors counts the batches logged as failed.
DlBatch ==
    /\ pc = "dl_batch"
    /\ dl.next < Len(StockList)
    /\ LET last  == Min(dl.next + DlBatchSize, Len(StockList))
           ks    == (dl.next + 1)..last
           batch == [ i \in 1..(last - dl.next) |-> StockList[dl.next + i] ]
       IN  \/ dl' = [ dl EXCEPT !.next = last,
                                !.requested = @ \o batch,
                                !.batch_errors = @ + 1,
                                !.failed = BatchFailed(@, batch) ]
           \/ \E o \in [ ks -> SymbolOutcomes ] :
                LET Kept(k)   == IF o[k] = "failed" THEN << >>
                                 ELSE << DownloadedFrame(k, o[k]) >>
                    Failed(k) == IF o[k] = "failed" THEN << StockList[k] >> ELSE << >>
                IN  dl' = [ dl EXCEPT
                              !.next = last,
                              !.requested = @ \o batch,
                              !.all_data = @ \o FlattenSeq([ i \in 1..(last - dl.next) |->
                                                                Kept(dl.next + i) ]),
                              !.failed = @ \o FlattenSeq([ i \in 1..(last - dl.next) |->
                                                              Failed(dl.next + i) ]) ]
    /\ UNCHANGED << cfg, rng, pc >>

\* Lines 257-258: no symbol was downloaded.
DlNothingDownloaded ==
    /\ pc = "dl_batch"
    /\ dl.next = Len(StockList)
    /\ dl.all_data = << >>
    /\ DlRaise("RuntimeError", "no stock data downloaded")
    /\ UNCHANGED << cfg, rng >>

\* Lines 261-286: none of the downloaded frames has the necessary columns.
DlNothingUsable ==
    /\ pc = "dl_batch"
    /\ dl.next = Len(StockList)
    /\ dl.all_data # << >>
    /\ CombinedData(dl.all_data) = << >>
    /\ DlRaise("RuntimeError", "no valid data to combine")
    /\ UNCHANGED << cfg, rng >>

\* Lines 261-306 and 317: the combined frame with its indicators is returned.
DlReturn ==
    /\ pc = "dl_batch"
    /\ dl.next = Len(StockList)
    /\ CombinedData(dl.all_data) # << >>
    /\ dl' = [ dl EXCEPT !.result = DownloadResult(CombinedData(dl.all_data)) ]
    /\ pc' = "collect_done"
    /\ UNCHANGED << cfg, rng >>

\* Lines 318-320: the cause is logged and the synthetic generator is run.
CollectFallback ==
    /\ dl' = [ dl EXCEPT !.log = Append(@, dl.cause) ]
    /\ GenBegin("dl_failed")

----------------------------------------------------------------------------
(* API keys: APIKeys.validate_keys (src/api_keys.py)                       *)

\* The five APIs, in the order of validation_results.
ApiNames == << "alpha_vantage", "fred", "newsapi", "gnews", "reddit" >>

\* A key string: empty, a placeholder ('your_...') or a real value.
KeyKinds == { "empty", "placeholder", "set" }

\* bool(key and not key.startswith('your_'))
KeyConfigured(kind) == kind # "empty" /\ kind # "placeholder"

\* Lines 35-43: validation_results.
ValidationResults(k) ==
    [ alpha_vantage |-> KeyConfigured(k.ALPHA_VANTAGE_KEY),
      fred          |-> KeyConfigured(k.FRED_API_KEY),
      newsapi       |-> KeyConfigured(k.NEWS_API_KEY),
      gnews         |-> KeyConfigured(k.GNEWS_API_KEY),
      reddit        |-> KeyConfigured(k.REDDIT_CLIENT_ID)
                        /\ KeyConfigured(k.REDDIT_CLIENT_SECRET) ]

\* sum(validation_results.values())
ConfiguredCount(k) ==
    Cardinality({ i \in 1..Len(ApiNames) : ValidationResults(k)[ApiNames[i]] })

\* The threshold of line 56.
RequiredApis == 3

\* Lines 56-61: True from three configured APIs on, otherwise
\* configured_count > 0.
KeysVerdict(configured_count) ==
    IF configured_count >= RequiredApis THEN TRUE ELSE configured_count > 0

KeySettings ==
    [ ALPHA_VANTAGE_KEY : KeyKinds, FRED_API_KEY : KeyKinds, NEWS_API_KEY : KeyKinds,
      GNEWS_API_KEY : KeyKinds, REDDIT_CLIENT_ID : KeyKinds,
      REDDIT_CLIENT_SECRET : KeyKinds ]

KeysAtRest ==
    /\ keys = [ ALPHA_VANTAGE_KEY |-> "empty", FRED_API_KEY |-> "empty",
                NEWS_API_KEY |-> "empty", GNEWS_API_KEY |-> "empty",
                REDDIT_CLIENT_ID |-> "empty", REDDIT_CLIENT_SECRET |-> "empty" ]
    /\ keysOk = << >>

\* APIKeys.validate_keys() is called.
ValidateKeys ==
    /\ pc = "idle"
    /\ keysOk = << >>
    /\ keysOk' = << KeysVerdict(ConfiguredCount(keys)) >>
    /\ pc' = "keys_done"
    /\ UNCHANGED << cfg, rng, keys >>

----------------------------------------------------------------------------
(* Specifications, one per component                                       *)

DefaultConfig == CHOOSE c \in Configs : c.start = 0 /\ c.end = MaxSpan /\ c.ndays = MaxTarget

\* The synthetic generator, run up to MaxRuns times.
InitGen ==
    /\ cfg \in Configs
    /\ rng \in RngInits
    /\ pc = "idle"
    /\ GenAtRest /\ MacroAtRest /\ FundAtRest /\ IndAtRest /\ NewsAtRest /\ SentAtRest /\ DlAtRest /\ KeysAtRest /\ AnalysisAtRest

NextGen ==
    \/ GenStart /\ UNCHANGED << anVars, dlVars, keyVars, macroVars, fundVars, indVars, newsVars, sent >>
    \/ GenStock /\ UNCHANGED << anVars, dlVars, keyVars, macroVars, fundVars, indVars, newsVars, sent >>
    \/ GenStockRaises /\ UNCHANGED << anVars, dlVars, keyVars, macroVars, fundVars, indVars, newsVars, sent >>
    \/ GenFinish /\ UNCHANGED << anVars, dlVars, keyVars, macroVars, fundVars, indVars, newsVars, sent >>
    \/ OtherRandomUse /\ UNCHANGED << anVars, dlVars, keyVars, macroVars, fundVars, indVars, newsVars, sent >>

SpecGen == InitGen /\ [][NextGen]_vars

\* The generator over several instrument lists.
InitOrder ==
    /\ cfg \in { DefaultConfig, [ DefaultConfig EXCEPT !.start = 1882, !.end = 1882 + MaxSpan ] }
    /\ rng \in RngInits
    /\ pc = "idle"
    /\ symbols \in SymbolLists
    /\ GenIdle /\ MacroAtRest /\ FundAtRest /\ IndAtRest /\ NewsAtRest /\ SentAtRest /\ DlAtRest /\ KeysAtRest /\ AnalysisAtRest

NextOrder ==
    \/ GenStart /\ UNCHANGED << anVars, dlVars, keyVars, macroVars, fundVars, indVars, newsVars, sent >>
    \/ GenStock /\ UNCHANGED << anVars, dlVars, keyVars, macroVars, fundVars, indVars, newsVars, sent >>
    \/ GenFinish /\ UNCHANGED << anVars, dlVars, keyVars, macroVars, fundVars, indVars, newsVars, sent >>
    \/ OtherRandomUse /\ UNCHANGED << anVars, dlVars, keyVars, macroVars, fundVars, indVars, newsVars, sent >>

SpecOrder == InitOrder /\ [][NextOrder]_vars

\* 2015-01-01 or 2020-01-01 to 2020-12-31 or 2024-12-31
LongConfigs ==
    { [start |-> a, end |-> b, ndays |-> MaxTarget, nnews |-> MaxNews] :
        a \in { 0, 1826 }, b \in { 2191, 3652 } }

\* The macro series.
InitMacro ==
    /\ cfg \in LongConfigs
    /\ rng \in RngInits
    /\ pc = "idle"
    /\ GenAtRest /\ MacroAtRest /\ FundAtRest /\ IndAtRest /\ NewsAtRest /\ SentAtRest /\ DlAtRest /\ KeysAtRest /\ AnalysisAtRest

NextMacro ==
    \/ MacroStart /\ UNCHANGED << anVars, dlVars, keyVars, genVars, fundVars, indVars, newsVars, sent >>
    \/ MacroStep /\ UNCHANGED << anVars, dlVars, keyVars, genVars, fundVars, indVars, newsVars, sent >>
    \/ MacroFinish /\ UNCHANGED << anVars, dlVars, keyVars, genVars, fundVars, indVars, newsVars, sent >>

SpecMacro == InitMacro /\ [][NextMacro]_vars

\* The quarterly fundamentals.
InitFund ==
    /\ cfg \in LongConfigs
    /\ rng \in RngInits
    /\ pc = "idle"
    /\ GenAtRest /\ MacroAtRest /\ FundAtRest /\ IndAtRest /\ NewsAtRest /\ SentAtRest /\ DlAtRest /\ KeysAtRest /\ AnalysisAtRest

NextFund ==
    \/ FundStart /\ UNCHANGED << anVars, dlVars, keyVars, genVars, macroVars, indVars, newsVars, sent >>
    \/ FundStep /\ UNCHANGED << anVars, dlVars, keyVars, genVars, macroVars, indVars, newsVars, sent >>
    \/ FundFinish /\ UNCHANGED << anVars, dlVars, keyVars, genVars, macroVars, indVars, newsVars, sent >>

SpecFund == InitFund /\ [][NextFund]_vars

\* The indicators of a given frame.
InitInd ==
    /\ cfg = DefaultConfig
    /\ rng = 0
    /\ pc = "idle"
    /\ series \in IndInputs
    /\ indOut = << >>
    /\ GenAtRest /\ MacroAtRest /\ FundAtRest /\ NewsAtRest /\ SentAtRest /\ DlAtRest /\ KeysAtRest /\ AnalysisAtRest

NextInd == IndCalc /\ UNCHANGED << anVars, dlVars, keyVars, genVars, macroVars, fundVars, newsVars, sent >>

SpecInd == InitInd /\ [][NextInd]_vars

NewsConfigs == { [c EXCEPT !.nnews = k] : c \in Configs, k \in NewsTargets }

\* The news corpus.
InitNews ==
    /\ cfg \in NewsConfigs
    /\ rng \in RngInits
    /\ pc = "idle"
    /\ GenAtRest /\ MacroAtRest /\ FundAtRest /\ IndAtRest /\ NewsAtRest /\ SentAtRest /\ DlAtRest /\ KeysAtRest /\ AnalysisAtRest

NextNews ==
    \/ NewsStart /\ UNCHANGED << anVars, dlVars, keyVars, genVars, macroVars, fundVars, indVars, sent >>
    \/ NewsStartRaises /\ UNCHANGED << anVars, dlVars, keyVars, genVars, macroVars, fundVars, indVars, sent >>
    \/ NewsDaily /\ UNCHANGED << anVars, dlVars, keyVars, genVars, macroVars, fundVars, indVars, sent >>
    \/ NewsDailyDone /\ UNCHANGED << anVars, dlVars, keyVars, genVars, macroVars, fundVars, indVars, sent >>
    \/ NewsTopUpRaises /\ UNCHANGED << anVars, dlVars, keyVars, genVars, macroVars, fundVars, indVars, sent >>
    \/ NewsDownSample /\ UNCHANGED << anVars, dlVars, keyVars, genVars, macroVars, fundVars, indVars, sent >>
    \/ NewsExact /\ UNCHANGED << anVars, dlVars, keyVars, genVars, macroVars, fundVars, indVars, sent >>

SpecNews == InitNews /\ [][NextNews]_vars

\* The collectors of one analysis, called in any order and any number of
\* times, after a synthetic stock panel or without one.
IndepConfigs ==
    { [start |-> 55, end |-> 95, ndays |-> n, nnews |-> k] :
        n \in { 2, 5 }, k \in NewsTargets }

InitIndep ==
    /\ cfg \in IndepConfigs
    /\ rng \in RngInits
    /\ pc = "idle"
    /\ GenAtRest /\ MacroAtRest /\ FundAtRest /\ IndAtRest /\ NewsAtRest /\ SentAtRest /\ DlAtRest /\ KeysAtRest /\ AnalysisAtRest

NextIndep ==
    \/ GenStart /\ UNCHANGED << anVars, dlVars, keyVars, macroVars, fundVars, indVars, newsVars, sent >>
    \/ GenStock /\ UNCHANGED << anVars, dlVars, keyVars, macroVars, fundVars, indVars, newsVars, sent >>
    \/ GenFinish /\ UNCHANGED << anVars, dlVars, keyVars, macroVars, fundVars, indVars, newsVars, sent >>
    \/ MacroStart /\ UNCHANGED << anVars, dlVars, keyVars, genVars, fundVars, indVars, newsVars, sent >>
    \/ MacroStep /\ UNCHANGED << anVars, dlVars, keyVars, genVars, fundVars, indVars, newsVars, sent >>
    \/ MacroFinish /\ UNCHANGED << anVars, dlVars, keyVars, genVars, fundVars, indVars, newsVars, sent >>
    \/ FundStart /\ UNCHANGED << anVars, dlVars, keyVars, genVars, macroVars, indVars, newsVars, sent >>
    \/ FundStep /\ UNCHANGED << anVars, dlVars, keyVars, genVars, macroVars, indVars, newsVars, sent >>
    \/ FundFinish /\ UNCHANGED << anVars, dlVars, keyVars, genVars, macroVars, indVars, newsVars, sent >>
    \/ NewsStart /\ UNCHANGED << anVars, dlVars, keyVars, genVars, macroVars, fundVars, indVars, sent >>
    \/ NewsDaily /\ UNCHANGED << anVars, dlVars, keyVars, genVars, macroVars, fundVars, indVars, sent >>
    \/ NewsDailyDone /\ UNCHANGED << anVars, dlVars, keyVars, genVars, macroVars, fundVars, indVars, sent >>
    \/ NewsTopUpRaises /\ UNCHANGED << anVars, dlVars, keyVars, genVars, macroVars, fundVars, indVars, sent >>
    \/ NewsDownSample /\ UNCHANGED << anVars, dlVars, keyVars, genVars, macroVars, fundVars, indVars, sent >>
    \/ NewsExact /\ UNCHANGED << anVars, dlVars, keyVars, genVars, macroVars, fundVars, indVars, sent >>
    \/ CollectorReturns /\ UNCHANGED << anVars, dlVars, keyVars, genVars, indVars, sent >>

SpecIndep == InitIndep /\ [][NextIndep]_vars

\* The sentiment analysis.
InitSent ==
    /\ cfg = DefaultConfig
    /\ rng = 0
    /\ pc = "idle"
    /\ GenAtRest /\ MacroAtRest /\ FundAtRest /\ IndAtRest /\ NewsAtRest /\ SentAtRest /\ DlAtRest /\ KeysAtRest /\ AnalysisAtRest

NextSent ==
    \/ SentStart /\ UNCHANGED << anVars, dlVars, keyVars, genVars, macroVars, fundVars, indVars, newsVars >>
    \/ SentRow /\ UNCHANGED << anVars, dlVars, keyVars, genVars, macroVars, fundVars, indVars, newsVars >>
    \/ SentFinish /\ UNCHANGED << anVars, dlVars, keyVars, genVars, macroVars, fundVars, indVars, newsVars >>
    \/ SentFinishRaises /\ UNCHANGED << anVars, dlVars, keyVars, genVars, macroVars, fundVars, indVars, newsVars >>

SpecSent == InitSent /\ [][NextSent]_vars

\* A ten-day range with business days and a weekend without any.
CollectConfigs ==
    { DefaultConfig, [ DefaultConfig EXCEPT !.start = 2, !.end = 3 ] }

\* collect_full_scale_stock_data: the download and the synthetic fallback.
InitCollect ==
    /\ cfg \in CollectConfigs
    /\ rng \in RngInits
    /\ pc = "idle"
    /\ GenAtRest /\ MacroAtRest /\ FundAtRest /\ IndAtRest /\ NewsAtRest /\ SentAtRest
    /\ DlAtRest /\ KeysAtRest /\ AnalysisAtRest

NextCollect ==
    \/ DlImportFails /\ UNCHANGED << anVars, genVars, macroVars, fundVars, indVars, newsVars, sent, keyVars >>
    \/ DlImportOk /\ UNCHANGED << anVars, genVars, macroVars, fundVars, indVars, newsVars, sent, keyVars >>
    \/ DlBatch /\ UNCHANGED << anVars, genVars, macroVars, fundVars, indVars, newsVars, sent, keyVars >>
    \/ DlNothingDownloaded /\ UNCHANGED << anVars, genVars, macroVars, fundVars, indVars, newsVars, sent, keyVars >>
    \/ DlNothingUsable /\ UNCHANGED << anVars, genVars, macroVars, fundVars, indVars, newsVars, sent, keyVars >>
    \/ DlReturn /\ UNCHANGED << anVars, genVars, macroVars, fundVars, indVars, newsVars, sent, keyVars >>
    \/ CollectFallback /\ UNCHANGED << anVars, macroVars, fundVars, indVars, newsVars, sent, keyVars >>
    \/ GenStock /\ UNCHANGED << anVars, dlVars, macroVars, fundVars, indVars, newsVars, sent, keyVars >>
    \/ GenStockRaises /\ UNCHANGED << anVars, dlVars, macroVars, fundVars, indVars, newsVars, sent, keyVars >>
    \/ GenFinish /\ UNCHANGED << anVars, dlVars, macroVars, fundVars, indVars, newsVars, sent, keyVars >>

SpecCollect == InitCollect /\ [][NextCollect]_vars

\* Ten days from 2015-01-01, a weekend, and ten days from 2020-02-26, which
\* enter the 2020 window.
SingleConfigs ==
    CollectConfigs \cup { [ DefaultConfig EXCEPT !.start = 1882, !.end = 1882 + MaxSpan ] }

\* _generate_single_stock_data on its own.
InitSingle ==
    /\ cfg \in SingleConfigs
    /\ rng \in SingleRngInits
    /\ pc = "idle"
    /\ GenAtRest /\ MacroAtRest /\ FundAtRest /\ IndAtRest /\ NewsAtRest /\ SentAtRest /\ DlAtRest /\ KeysAtRest /\ AnalysisAtRest

NextSingle ==
    \/ GenSingle /\ UNCHANGED << anVars, dlVars, keyVars, macroVars, fundVars, indVars, newsVars, sent >>
    \/ GenSingleRaises /\ UNCHANGED << anVars, dlVars, keyVars, macroVars, fundVars, indVars, newsVars, sent >>

SpecSingle == InitSingle /\ [][NextSingle]_vars

\* The API-key validation.
InitKeys ==
    /\ cfg = DefaultConfig
    /\ rng = 0
    /\ pc = "idle"
    /\ keys \in KeySettings
    /\ keysOk = << >>
    /\ GenAtRest /\ MacroAtRest /\ FundAtRest /\ IndAtRest /\ NewsAtRest /\ SentAtRest
    /\ DlAtRest /\ AnalysisAtRest

NextKeys ==
    ValidateKeys /\ UNCHANGED << anVars, genVars, macroVars, fundVars, indVars, newsVars, sent, dlVars >>

SpecKeys == InitKeys /\ [][NextKeys]_vars

\* One run of main.
InitPipeline ==
    /\ cfg = DefaultConfig
    /\ rng = 0
    /\ pc = "idle"
    /\ GenAtRest /\ MacroAtRest /\ FundAtRest /\ IndAtRest /\ NewsAtRest /\ SentAtRest /\ DlAtRest /\ KeysAtRest /\ AnalysisAtRest

NextPipeline ==
    \/ AnalysisBegin /\ UNCHANGED << dlVars, keyVars, genVars, macroVars, fundVars, indVars, newsVars, sent >>
    \/ StageReturns /\ UNCHANGED << dlVars, keyVars, genVars, macroVars, fundVars, indVars, newsVars, sent >>
    \/ StageRaises /\ UNCHANGED << dlVars, keyVars, genVars, macroVars, fundVars, indVars, newsVars, sent >>
    \/ SaveData /\ UNCHANGED << dlVars, keyVars, genVars, macroVars, fundVars, indVars, newsVars, sent >>
    \/ AnalysisCompletes /\ UNCHANGED << dlVars, keyVars, genVars, macroVars, fundVars, indVars, newsVars, sent >>
    \/ Interrupted /\ UNCHANGED << dlVars, keyVars, genVars, macroVars, fundVars, indVars, newsVars, sent >>

SpecPipeline == InitPipeline /\ [][NextPipeline]_vars

----------------------------------------------------------------------------
(* Properties                                                              *)

\* C1 (SpecGen): every run of the generator over the same configuration
\* returns the same panel, whatever state the pseudorandom source was in
\* before the run.
C1_Determinism ==
    \A i \in 1..Len(panels) : \A j \in 1..Len(panels) : panels[i] = panels[j]

\* Two runs have returned a non-empty panel.
C1_Witness ==
    /\ Len(panels) >= 2
    /\ Len(panels[1]) >= Len(StockList)
    /\ Len(panels[2]) >= Len(StockList)

\* C2 (SpecGen): the trading calendar of a run holds exactly
\* EXPECTED_TRADING_DAYS dates.  The code only truncates: a business-day
\* range shorter than the target is kept as it is.
C2_CalendarExact ==
    pc = "gen_loop" => Len(calendar) = cfg.ndays

\* The calendar is never longer than the target: the truncation half.
C2_CalendarAtMost ==
    pc = "gen_loop" => Len(calendar) <= cfg.ndays

\* C3 (SpecGen): in the rows of every instrument, the first Open equals the
\* first Close and every later Open equals the previous day's Close.
C3_OpenCloseChain ==
    \A k \in 1..Len(acc) :
        /\ acc[k][1].Open = acc[k][1].Close
        /\ \A i \in 2..Len(acc[k]) : acc[k][i].Open = acc[k][i - 1].Close

\* An instrument with three days whose closes differ.
C3_Witness ==
    \E k \in 1..Len(acc) :
        /\ Len(acc[k]) >= 3
        /\ acc[k][2].Close # acc[k][1].Close
        /\ acc[k][3].Close # acc[k][2].Close
        /\ acc[k][3].Open = acc[k][2].Close

\* C4 (SpecGen): every emitted Volume is positive, lies between 0.5 and 2
\* times avg_volume * (1 + 10 * |Return|), and so is at least half of the
\* sector's avg_volume, whatever the sign of the day's return.
C4_VolumePositive ==
    \A k \in 1..Len(acc) : \A i \in 1..Len(acc[k]) :
        LET avg  == SectorParameters(acc[k][i].Symbol).avg_volume
            full == MulDiv(avg, RS + 10 * Abs(acc[k][i].Return), RS)
        IN  /\ acc[k][i].Volume > 0
            /\ acc[k][i].Volume >= full \div 2
            /\ acc[k][i].Volume <= 2 * full
            /\ acc[k][i].Volume >= avg \div 2

\* A day with a return below -1% has a volume.
C4_Witness ==
    \E k \in 1..Len(acc) : \E i \in 1..Len(acc[k]) :
        /\ acc[k][i].Return < 0 - (RS \div 100)
        /\ acc[k][i].Volume > 0

InBand(v) ==
    \A ind \in DOMAIN v : v[ind] >= MacroMin[ind] /\ v[ind] <= MacroMax[ind]

\* C5 (SpecMacro): every emitted macro vector lies in its band, and the
\* emitted vector is the state carried into the next month.
C5_MacroClamped ==
    /\ InBand(macro)
    /\ \A i \in 1..Len(macroOut) :
          InBand(macroOut[i].values) /\ macroOut[i].values = macro

\* A month of the pandemic window whose vector was cut at a band edge.
C5_Witness ==
    /\ macroOut # << >>
    /\ macroOut[1].Date >= CovidStart
    /\ macroOut[1].Date <= MacroCovidEnd
    /\ \E ind \in DOMAIN macro : macro[ind] \in { MacroMin[ind], MacroMax[ind] }

\* C6 (SpecFund): each of the fifteen ratios of every record is at least the
\* floor 0.01, hence positive.
C6_FundFloor ==
    \A i \in 1..Len(fund) :
        /\ Len(fund[i].values) = 15
        /\ \A j \in 1..Len(fund[i].values) :
              fund[i].values[j] >= FundFloor /\ fund[i].values[j] > 0

\* A record in which a negative draw was lifted to the floor.
C6_Witness ==
    \E i \in 1..Len(fund) : \E j \in 1..Len(fund[i].values) :
        fund[i].values[j] = FundFloor

\* C7 (SpecInd): row t of the indicators of the whole frame equals row t of
\* the indicators of the rows up to t only.
C7_Causality ==
    pc = "ind_done" =>
        LET df == SortByDate(series)
        IN  \A t \in 1..Len(df) :
                CalculateTechnicalIndicators(SubSeq(df, 1, t))[t] = indOut[t]

\* A frame with a defined MA_20 on a row that has later rows.
C7_Witness ==
    /\ pc = "ind_done"
    /\ Len(indOut) > 20
    /\ IsNum(indOut[20].MA_20)
    /\ indOut[20].MA_20 # indOut[Len(indOut)].MA_20

\* C8 (SpecNews): collect_news_sentiment_data does not fail in the top-up
\* and the corpus it returns holds exactly EXPECTED_NEWS_COUNT articles.
\* With a deficit after the daily pass, _generate_additional_news raises
\* AttributeError on its first article.
C8_NewsCountExact ==
    /\ pc # "news_attribute_error"
    /\ pc = "news_done" => Len(news) = cfg.nnews

\* The corpus that is returned has the target size: the surplus half.
C8_ReturnedExact ==
    pc = "news_done" => Len(news) = cfg.nnews

\* C9 (SpecSent): the combined_sentiment of every analysed article lies in
\* [-1, 1], in the blended and in the lexicon-only mode.
C9_SentimentBound ==
    \A i \in 1..Len(sent.results) :
        /\ sent.results[i].combined_sentiment >= 0 - RS
        /\ sent.results[i].combined_sentiment <= RS

\* Blended mode: an article without any lexicon word and one at the bound.
C9_Witness ==
    /\ sent.use_textblob
    /\ \E i \in 1..Len(sent.results) : sent.results[i].total_keywords = 0
    /\ \E i \in 1..Len(sent.results) : sent.results[i].combined_sentiment = RS

StrictlyRising(rows) ==
    \A i \in 2..Len(rows) : rows[i].Close > rows[i - 1].Close

\* C10 (SpecInd): on a frame whose close rises strictly, RSI is 100 on every
\* row from the fourteenth on.
C10_RisingRSI ==
    (pc = "ind_done" /\ StrictlyRising(indOut)) =>
        \A t \in RSIWindow..Len(indOut) : indOut[t].RSI = Num(10000)

\* A strictly rising frame of at least twenty rows.
C10_Witness ==
    /\ pc = "ind_done"
    /\ Len(indOut) >= 20
    /\ StrictlyRising(indOut)
    /\ indOut[20].RSI = Num(10000)

\* C11 (SpecCollect): no failure of the download reaches the caller of
\* collect_full_scale_stock_data: its cause is logged and the synthetic
\* generator is run, whose panel is what the call returns (the generator
\* itself fails only on an empty calendar).  The generator runs only after
\* such a failure: a download that succeeds returns its own frame and leaves
\* the generator untouched.
C11_Fallback ==
    /\ pc # "collect_raised"
    /\ (dl.exc # "none" /\ pc # "dl_failed") => dl.log = << dl.cause >>
    /\ (dl.exc # "none" /\ pc = "idle") => (runs = 1 /\ Len(panels) = 1)
    /\ pc \in { "gen_loop", "gen_raised" } => dl.exc # "none"
    /\ pc = "gen_raised" => TradingCalendar(cfg) = << >>
    /\ pc = "collect_done" =>
          /\ dl.exc = "none" /\ dl.log = << >> /\ dl.result # << >>
          /\ runs = 0 /\ calendar = << >> /\ acc = << >> /\ panels = << >>

\* The download ran through its batches, some symbols failed and none was
\* usable; the fallback has returned a synthetic panel.
C11_Witness ==
    /\ pc = "idle"
    /\ dl.exc = "RuntimeError"
    /\ dl.all_data # << >>
    /\ dl.failed # << >>
    /\ dl.log = << dl.cause >>
    /\ Len(panels) = 1
    /\ Len(panels[1]) = Len(StockList) * Len(calendar)

\* C12 (SpecGen): a configuration whose calendar is zero-length aborts the
\* run before generation starts: the generator makes no pseudorandom draw,
\* so np.random is still in the state the seed put it in, and no record is
\* accumulated.
C12_NoDrawOnEmptyCalendar ==
    (TradingCalendar(cfg) = << >> /\ pc \in { "gen_loop", "gen_raised" }) =>
        (rng = SeedRng(rng, SeedValue) /\ acc = << >>)

\* C13 (SpecGen): the failure of one instrument does not abort the batch:
\* the run fails only after the loop has gone through every instrument.
\* The loop of lines 345-347 has no handler: the first instrument that raises
\* ends the run.
C13_LoopCompletesBeforeFailure ==
    pc = "gen_raised" => symIdx = Len(StockList)

\* The download path does isolate: every symbol of a batch that was gone
\* through is either kept or recorded as failed, and the run fails only
\* when nothing was kept or nothing kept is usable.
C13_DownloadIsolated ==
    /\ Len(dl.all_data) + Len(dl.failed) = dl.next
    /\ dl.cause = "no stock data downloaded" => dl.all_data = << >>
    /\ dl.cause = "no valid data to combine" => CombinedData(dl.all_data) = << >>

\* The price before day t of a path: initial_price before the first day.
PriceBefore(p, t) == IF t = 1 THEN p.initial_price ELSE p.prices[t - 1]

\* price[t] = price[t-1] * (1 + total_return[t]) on the days from..n of every
\* instrument generated so far, and Close of day t is price[t] rounded.
Compounds(from) ==
    \A k \in 1..Len(paths) :
        /\ Len(paths[k].prices) = Len(calendar)
        /\ \A t \in from..Len(calendar) :
              paths[k].prices[t] = PriceBefore(paths[k], t)
                  + MulDiv(PriceBefore(paths[k], t), paths[k].total_returns[t], RS)
        /\ \A t \in 1..Len(calendar) :
              acc[k][t].Close = Round2(paths[k].prices[t])

\* C14 (SpecGen): for every instrument the unrounded price of every day,
\* the first included, is the price before it compounded by the total
\* return of the day, where the price before the first day is
\* initial_price; Close of a day is that price rounded to cents.
C14_Compounding == Compounds(1)

\* The statement as made: the price of the first day is initial_price and
\* the later ones compound.
C14_FirstPriceIsInitial ==
    /\ Compounds(2)
    /\ \A k \in 1..Len(paths) :
          Len(calendar) > 0 => paths[k].prices[1] = paths[k].initial_price

\* A finished run over five days or more in which an instrument's first
\* close is off its initial price and its path goes both up and down.
C14_Witness ==
    /\ pc = "idle"
    /\ Len(paths) = Len(StockList)
    /\ Len(calendar) >= 5
    /\ \E k \in 1..Len(paths) :
          /\ paths[k].prices[1] # paths[k].initial_price
          /\ \E t \in 2..Len(calendar) : paths[k].prices[t] > paths[k].prices[t - 1]
          /\ \E t \in 2..Len(calendar) : paths[k].prices[t] < paths[k].prices[t - 1]

\* C15 (SpecGen): the list the generator iterates over holds exactly
\* TARGET_STOCK_COUNT distinct symbols, so that the panel it builds covers
\* that many instruments.
C15_StockCount ==
    pc = "gen_loop" =>
        /\ Len(SP500_TOP_300_STOCKS) = TARGET_STOCK_COUNT
        /\ Cardinality({ SP500_TOP_300_STOCKS[i] : i \in 1..Len(SP500_TOP_300_STOCKS) })
               = TARGET_STOCK_COUNT

\* C16 (SpecNews): the corpus that collect_news_sentiment_data returns
\* covers the calendar: every business day has at least one article in it.
\* The down-sample of lines 778-779 draws rows without regard to their date.
C16_NewsCoverage ==
    pc = "news_done" =>
        \A d \in 1..Len(NewsCalendar(cfg)) :
            \E i \in 1..Len(news) : news[i].Date = NewsCalendar(cfg)[d]

\* The daily pass does cover the calendar: one article or more per day.
C16_DailyPassCovers ==
    pc = "news_adjust" =>
        \A d \in 1..Len(NewsCalendar(cfg)) :
            \E i \in 1..Len(news) : news[i].Date = NewsCalendar(cfg)[d]

\* The label the thresholds give to a daily mean.
ThresholdRegime(m) ==
    IF m <= 0 - (RS \div 5) THEN "Bearish"
    ELSE IF m > RS \div 5 THEN "Bullish"
    ELSE "Neutral"

\* C17 (SpecSent): every row of the daily summary has a regime label, the
\* one of the thresholds: Bearish up to -0.2, Bullish above 0.2, Neutral
\* between.  pd.cut leaves a daily mean of -1 without a label.
C17_RegimeTotal ==
    pc = "sent_done" =>
        \A i \in 1..Len(sent.daily) :
            sent.daily[i].sentiment_regime
                = ThresholdRegime(sent.daily[i].combined_sentiment_mean)

\* Every daily mean above -1 has the label of the thresholds.
C17_RegimeAboveMinusOne ==
    pc = "sent_done" =>
        \A i \in 1..Len(sent.daily) :
            sent.daily[i].combined_sentiment_mean > 0 - RS =>
                sent.daily[i].sentiment_regime
                    = ThresholdRegime(sent.daily[i].combined_sentiment_mean)

\* C18 (SpecKeys): validate_keys() returns True exactly when at least
\* RequiredApis of the five APIs are configured.  Below the threshold it
\* returns configured_count > 0.
C18_KeyThreshold ==
    keysOk # << >> => (keysOk[1] <=> ConfiguredCount(keys) >= RequiredApis)

\* What validate_keys() does return: True with one configured API or more.
C18_AnyKeyPasses ==
    keysOk # << >> => (keysOk[1] <=> ConfiguredCount(keys) >= 1)

\* The columns _calculate_technical_indicators adds.
IndicatorColumns ==
    { "MA_5", "MA_20", "MA_50", "MA_200", "Volatility_5", "Volatility_20",
      "Volatility_60", "RSI", "MACD", "MACD_Signal", "BB_Upper", "BB_Lower",
      "Liquidity_Score", "Volume_MA_20", "Volume_Ratio", "Price_Change_1D",
      "Price_Change_5D", "Price_Change_20D" }

RECURSIVE RowsOf(_, _)
\* The rows of one instrument in a panel, without the indicator columns.
RowsOf(panel, symbol) ==
    IF panel = << >> THEN << >>
    ELSE (IF Head(panel).Symbol = symbol
          THEN << [ f \in (DOMAIN Head(panel)) \ IndicatorColumns |-> Head(panel)[f] ] >>
          ELSE << >>)
         \o RowsOf(Tail(panel), symbol)

\* Every row of the panel carries the indicators computed from the rows of
\* its own instrument alone.
PerInstrument(panel) ==
    \A t \in 1..Len(panel) :
        LET own == CalculateTechnicalIndicators(RowsOf(panel, panel[t].Symbol))
        IN  \E j \in 1..Len(own) : own[j] = panel[t]

\* C19 (SpecCollect): in the panel collect_full_scale_stock_data returns,
\* from the download or from the synthetic generator, the indicators of an
\* instrument are a function of that instrument's rows only.  The download
\* path computes them on the concatenation of all the symbols' frames.
C19_NoCrossInstrument ==
    /\ pc = "collect_done" => PerInstrument(dl.result)
    /\ \A k \in 1..Len(panels) : PerInstrument(panels[k])

\* The synthetic panel is computed instrument by instrument.
C19_SyntheticPerInstrument ==
    \A k \in 1..Len(panels) : PerInstrument(panels[k])

\* C20 (SpecSent): without TextBlob the scorer does not fail for the lack
\* of it (it raises only on an empty frame, as it does with TextBlob) and
\* every article gets polarity 0, confidence 0.5 and, as its combined
\* score, its keyword score; with TextBlob the combined score is
\* 0.6 * polarity + 0.4 * keyword score.
C20_Degradation ==
    /\ pc = "sent_key_error" => sent.results = << >>
    /\ \A i \in 1..Len(sent.results) :
          LET r  == sent.results[i]
              kw == KeywordSentiment(r.positive_keywords, r.negative_keywords)
          IN  /\ r.keyword_sentiment = kw
              /\ IF sent.use_textblob
                 THEN r.combined_sentiment = TruncDiv(6 * r.textblob_sentiment + 4 * kw, 10)
                 ELSE /\ r.textblob_sentiment = 0
                      /\ r.confidence = RS \div 2
                      /\ r.combined_sentiment = kw

\* Lexicon-only mode, analysis finished: an article with a negative keyword
\* score and one with a positive one.
C20_Witness ==
    /\ pc = "sent_done"
    /\ ~sent.use_textblob
    /\ \E i \in 1..Len(sent.results) : sent.results[i].combined_sentiment < 0
    /\ \E i \in 1..Len(sent.results) : sent.results[i].combined_sentiment > 0

\* The symbols of a list of frames, and of a list of rows.
SymbolsOfFrames(frames) == { frames[i][1].Symbol : i \in 1..Len(frames) }

SymbolsOfRows(rows) == { rows[i].Symbol : i \in 1..Len(rows) }

\* A sequence without a repeated element.
NoRepeat(xs) == \A i, j \in 1..Len(xs) : xs[i] = xs[j] => i = j

\* C21 (SpecCollect): each batch is requested once, whether it raised or
\* not, and the batches after a failed one are still requested: the
\* download gives up only after the last batch.  Every symbol requested is
\* in exactly one of the downloaded and the failed lists, the symbols of a
\* batch that raised among the failed ones, and the panel returned holds
\* rows of downloaded symbols only.
C21_BatchIsolation ==
    /\ dl.requested = SubSeq(StockList, 1, dl.next)
    /\ NoRepeat(dl.requested) /\ NoRepeat(dl.failed)
    /\ Cardinality(SymbolsOfFrames(dl.all_data)) = Len(dl.all_data)
    /\ SymbolsOfFrames(dl.all_data) \cup { dl.failed[i] : i \in 1..Len(dl.failed) }
          = { dl.requested[i] : i \in 1..Len(dl.requested) }
    /\ SymbolsOfFrames(dl.all_data) \cap { dl.failed[i] : i \in 1..Len(dl.failed) } = { }
    /\ dl.exc = "RuntimeError" => dl.requested = StockList
    /\ pc = "collect_done" =>
          /\ dl.requested = StockList
          /\ SymbolsOfRows(dl.result) \subseteq SymbolsOfFrames(dl.all_data)
          /\ SymbolsOfRows(dl.result) \cap { dl.failed[i] : i \in 1..Len(dl.failed) } = { }

\* The first batch raised, the later ones were requested and a panel of
\* their symbols is returned.
C21_Witness ==
    /\ pc = "collect_done"
    /\ dl.batch_errors = 1
    /\ Len(dl.failed) = DlBatchSize
    /\ dl.failed[1] = StockList[1]
    /\ Len(dl.all_data) = Len(StockList) - DlBatchSize
    /\ SymbolsOfRows(dl.result) = SymbolsOfFrames(dl.all_data)

\* The frame the instrument gets when the list is generated in the order of
\* StockList under the same seed and calendar.
ReferenceFrame(symbol) ==
    LET j == CHOOSE i \in 1..Len(StockList) : StockList[i] = symbol
    IN  GenerateAll(StockList, calendar, SeedRng(rng, SeedValue))[j]

\* C22 (SpecOrder): the rows an instrument gets do not depend on the other
\* instruments of the list nor on their order: under any list the frame of
\* an instrument is the one it gets under StockList.  All instruments draw
\* from one stream seeded before the loop, so the frame depends on the
\* draws made for the instruments before it.
C22_OrderIndependence ==
    \A k \in 1..Len(acc) : acc[k] = ReferenceFrame(symbols[k])

\* The first instrument of a list does get the frame that the seed alone
\* determines.
C22_FirstInstrument ==
    Len(acc) > 0 =>
        acc[1] = GenerateSingleStockData(symbols[1], calendar, SeedRng(rng, SeedValue)).rows

\* A date within one of the two event windows, bounds included.
InEventWindow(d) ==
    \/ d >= CovidStart /\ d <= CovidEnd
    \/ d >= InflationStart /\ d <= InflationEnd

\* C23 (SpecGen): on every day outside both event windows the total return
\* of an instrument is beta * market_shock + idiosyncratic, the array given
\* to _add_market_events, which the function copies and leaves as it was;
\* only the days inside a window are perturbed.
C23_EventsInWindowOnly ==
    \A k \in 1..Len(paths) :
        /\ Len(paths[k].total_returns) = Len(calendar)
        /\ Len(paths[k].base_returns) = Len(calendar)
        /\ \A t \in 1..Len(calendar) :
              ~InEventWindow(calendar[t]) =>
                  paths[k].total_returns[t] = paths[k].base_returns[t]

\* A calendar that enters a window: the day before is left as it was, the
\* first day inside is perturbed.
C23_Witness ==
    /\ Len(paths) > 0
    /\ \E t \in 1..(Len(calendar) - 1) :
          /\ ~InEventWindow(calendar[t])
          /\ InEventWindow(calendar[t + 1])
          /\ paths[1].total_returns[t + 1] # paths[1].base_returns[t + 1]

C24_BracketWhenPositive ==
    \A k \in 1..Len(acc) : \A t \in 1..Len(acc[k]) :
        acc[k][t].Close > 0 =>
            /\ acc[k][t].Low <= acc[k][t].Close
            /\ acc[k][t].Close <= acc[k][t].High
            /\ (acc[k][t].High - acc[k][t].Close) * 100 <= 4 * acc[k][t].Close + 200
            /\ (acc[k][t].Close - acc[k][t].Low) * 100 <= 4 * acc[k][t].Close + 200

C27_PositiveWhileReturnsAboveMinusOne ==
    \A k \in 1..Len(paths) :
        (\A t \in 1..Len(paths[k].total_returns) : paths[k].total_returns[t] > 0 - RS)
            => \A t \in 1..Len(paths[k].prices) : paths[k].prices[t] > 0

\* C28 (SpecGen): in every generated row High >= max(Open, Close) and
\* Low <= min(Open, Close).  High and Low are drawn around the close of the
\* day alone; the open is the close of the day before, which the range of
\* the day need not reach.
C28_OHLCConsistent ==
    \A k \in 1..Len(acc) : \A t \in 1..Len(acc[k]) :
        /\ acc[k][t].High >= Max(acc[k][t].Open, acc[k][t].Close)
        /\ acc[k][t].Low <= Min(acc[k][t].Open, acc[k][t].Close)

\* The first row of an instrument, whose open is its close, is consistent.
C28_FirstRowConsistent ==
    \A k \in 1..Len(acc) :
        (Len(acc[k]) > 0 /\ acc[k][1].Close > 0) =>
            /\ acc[k][1].Open = acc[k][1].Close
            /\ acc[k][1].High >= acc[k][1].Close
            /\ acc[k][1].Low <= acc[k][1].Close

\* The sum of the rises (or of the falls, as positive amounts) of the close
\* over rows lo..hi; row 1 has no change.
RECURSIVE SumOfGains(_, _, _)
SumOfGains(rows, lo, hi) ==
    IF lo > hi THEN 0
    ELSE (IF hi >= 2 /\ rows[hi].Close > rows[hi - 1].Close
            THEN rows[hi].Close - rows[hi - 1].Close ELSE 0)
         + SumOfGains(rows, lo, hi - 1)

RECURSIVE SumOfLosses(_, _, _)
SumOfLosses(rows, lo, hi) ==
    IF lo > hi THEN 0
    ELSE (IF hi >= 2 /\ rows[hi].Close < rows[hi - 1].Close
            THEN rows[hi - 1].Close - rows[hi].Close ELSE 0)
         + SumOfLosses(rows, lo, hi - 1)

\* C25 (SpecInd), as stated: every row whose 14-row average loss is zero has
\* an undefined RSI.
C25_ZeroLossUndefined ==
    pc = "ind_done" =>
        \A t \in RSIWindow..Len(indOut) :
            SumOfLosses(indOut, t - RSIWindow + 1, t) = 0 => indOut[t].RSI = NaN

\* C25 (SpecInd), amended: _calculate_rsi gives every row a value or the
\* undefined value, never an error; a defined RSI lies in [0, 100]; on a row
\* whose 14-row average loss is zero the RSI is undefined when the average
\* gain is zero too, and is 100 when the average gain is positive.
C25_ZeroLoss ==
    pc = "ind_done" =>
        /\ Len(indOut) = Len(series)
        /\ \A t \in 1..Len(indOut) :
              /\ indOut[t].RSI.k \in { "num", "nan" }
              /\ IsNum(indOut[t].RSI) =>
                    (indOut[t].RSI.v >= 0 /\ indOut[t].RSI.v <= 10000)
        /\ \A t \in RSIWindow..Len(indOut) :
              SumOfLosses(indOut, t - RSIWindow + 1, t) = 0 =>
                 indOut[t].RSI = (IF SumOfGains(indOut, t - RSIWindow + 1, t) = 0
                                    THEN NaN ELSE Num(10000))

\* A constant frame and its undefined RSI on a row with a complete window.
C25_Witness ==
    /\ pc = "ind_done"
    /\ Len(indOut) > RSIWindow
    /\ \A i \in 2..Len(indOut) : indOut[i].Close = indOut[1].Close
    /\ indOut[Len(indOut)].RSI = NaN

\* C26 (SpecInd): the fourteen first rows of a frame, for which fewer than 14
\* price deltas exist, have an undefined RSI.
C26_WindowComplete ==
    pc = "ind_done" =>
        \A t \in 1..Len(indOut) : t <= RSIWindow => indOut[t].RSI = NaN

\* C26 (SpecInd), the part that holds: the thirteen first rows have an
\* undefined RSI, and from the fifteenth row on the RSI is the one of the 14
\* deltas close[s] - close[s-1], s = t-13..t.
C26_RowsBeforeWindow ==
    pc = "ind_done" =>
        /\ \A t \in 1..Len(indOut) : t < RSIWindow => indOut[t].RSI = NaN
        /\ \A t \in (RSIWindow + 1)..Len(indOut) :
              indOut[t].RSI =
                  CalculateRSI([ i \in 1..(RSIWindow + 1) |->
                                   indOut[t - RSIWindow - 1 + i].Close ],
                               RSIWindow, RSIWindow + 1)

\* C30 (SpecIndep): whatever state np.random is in when a collector is
\* called (after a synthetic stock panel, after a live one that drew
\* nothing, after any of the other collectors, in any order), the records of
\* collect_macro_economic_data, collect_fundamental_data and
\* collect_news_sentiment_data are those the configuration alone determines:
\* the ones computed from np.random.seed(42).
C30_CollectorsIndependent ==
    /\ macroIdx > 0 =>
          macroOut = << [ Date   |-> MonthEnds(cfg)[macroIdx],
                          values |-> MacroAfter(cfg, macroIdx).values ] >>
    /\ fundIdx > 0 => fund = << FundAfter(cfg, fundIdx).record >>
    /\ news = IF /\ newsDay = Len(NewsCalendar(cfg))
                 /\ pc \notin { "news_daily", "news_adjust", "news_attribute_error" }
              THEN NewsReturned(cfg)
              ELSE NewsAfterDays(cfg, newsDay).rows

\* The fundamentals returned after a synthetic stock panel, the news corpus
\* and the macro series, with np.random left where the macro series ended.
C30_Witness ==
    /\ pc = "fund_done"
    /\ runs > 0
    /\ newsDay = Len(NewsCalendar(cfg))
    /\ news # << >>
    /\ macroIdx = Len(MonthEnds(cfg))
    /\ macroIdx > 1
    /\ fundIdx = Len(QuarterEnds(cfg)) * Len(StockList)

\* A sequence that is the beginning of another.
IsPrefix(xs, ys) == Len(xs) <= Len(ys) /\ xs = SubSeq(ys, 1, Len(xs))

\* C29 (SpecPipeline): the stages of run_full_analysis are started in the
\* fixed order stocks, fundamentals, macro, news, sentiment, report, charts,
\* academic tables, robustness; a stage is started only when every earlier
\* stage has returned, its _save_data calls included, whether they wrote
\* the files or not; and an exception raised by a stage ends the run: no
\* later stage is started, run_full_analysis returns and the exception does
\* not reach main.
C29_Staging ==
    /\ IsPrefix(an.started, StageOrder)
    /\ IsPrefix(an.returned, an.started)
    /\ Len(an.started) <= Len(an.returned) + 1
    /\ Len(an.saves) <= Len(FlattenSeq([ i \in 1..Len(an.started) |-> StageFiles(an.started[i]) ]))
    /\ an.exc # "none" =>
          /\ pc = "main_returned"
          /\ an.main = "none"
          /\ Len(an.started) = Len(an.returned) + 1
    /\ an.main # "none" => an.origin \in { "create_directories", "user" }
    /\ (pc = "main_returned" /\ an.exc = "none") => an.returned = StageOrder

\* The news stage raises after a stock panel whose file could not be
\* written: the run is over with four stages started and three returned.
C29_Witness ==
    /\ pc = "main_returned"
    /\ an.exc = "AttributeError"
    /\ an.started = SubSeq(StageOrder, 1, 4)
    /\ an.returned = SubSeq(StageOrder, 1, 3)
    /\ an.saves[1] = [ file |-> "stock_market_data.csv", ok |-> FALSE ]

====
